---- MODULE Spec2Model ----
(***************************************************************************)
(* Model of the startup patch engine of lxd (lxd/patches.go): the patch    *)
(* registry, patch.apply and patchesApply, run by one node against its     *)
(* applied-patches store.                                                  *)
(***************************************************************************)
EXTENDS Integers, Sequences, FiniteSets, TLC

(* ---------------------------------------------------------------- bounds *)
\* Longest registry the general specification draws.
RegLen == 3
\* Number of patchesApply invocations (process starts) of one behaviour.
MaxCalls == 2
\* Cluster members of the cluster specifications.
NumNodes == 2
\* Leader elections of one behaviour.
MaxLeaderChanges == 1
\* Buckets, volumes and snapshots of the cluster specifications.
NumVols == 2

(* ------------------------------------------------------- patch stages *)
patchNoStageSet == 0
patchPreDaemonStorage == 1
patchPostDaemonStorage == 2
patchPostNetworks == 3

\* Values a patch's stage field can hold.
patchStage == {patchNoStageSet, patchPreDaemonStorage, patchPostDaemonStorage, patchPostNetworks}

\* Stages a caller requests.
RequestedStages == {patchPreDaemonStorage, patchPostDaemonStorage, patchPostNetworks}

\* type patch struct { name; stage; run }: run is the body, whose outcome
\* (nil or an error) is chosen when the body returns.
patch(n, s) == [name |-> n, stage |-> s]

\* var patches: the shipped registry, in its order.
patches ==
  << patch("storage_lvm_skipactivation", patchPostDaemonStorage),
     patch("clustering_drop_database_role", patchPostDaemonStorage),
     patch("network_clear_bridge_volatile_hwaddr", patchPostDaemonStorage),
     patch("move_backups_instances", patchPostDaemonStorage),
     patch("network_ovn_enable_nat", patchPostDaemonStorage),
     patch("network_ovn_remove_routes", patchPostDaemonStorage),
     patch("network_fan_enable_nat", patchPostDaemonStorage),
     patch("thinpool_typo_fix", patchPostDaemonStorage),
     patch("vm_rename_uuid_key", patchPostDaemonStorage),
     patch("db_nodes_autoinc", patchPreDaemonStorage),
     patch("network_acl_remove_defaults", patchPostDaemonStorage),
     patch("clustering_server_cert_trust", patchPreDaemonStorage),
     patch("warnings_remove_empty_node", patchPostDaemonStorage),
     patch("dnsmasq_entries_include_device_name", patchPostDaemonStorage),
     patch("storage_missing_snapshot_records", patchPostDaemonStorage),
     patch("storage_delete_old_snapshot_records", patchPostDaemonStorage),
     patch("storage_zfs_drop_block_volume_filesystem_extension", patchPostDaemonStorage),
     patch("storage_prefix_bucket_names_with_project", patchPostDaemonStorage),
     patch("storage_move_custom_iso_block_volumes", patchPostDaemonStorage),
     patch("zfs_set_content_type_user_property", patchPostDaemonStorage),
     patch("storage_zfs_unset_invalid_block_settings", patchPostDaemonStorage),
     patch("storage_zfs_unset_invalid_block_settings_v2", patchPostDaemonStorage),
     patch("storage_unset_invalid_block_settings", patchPostDaemonStorage),
     patch("candid_rbac_remove_config_keys", patchPreDaemonStorage),
     patch("storage_set_volume_uuid", patchPostDaemonStorage) >>

\* Names of the patches of the registries the general specification draws.
TestNames == <<"P1", "P2", "P3", "P4", "P5">>

\* Registries of 1..RegLen uniquely named patches, every stage value allowed.
TestRegistries ==
  UNION { { [k \in 1..len |-> patch(TestNames[k], st[k])] : st \in [1..len -> patchStage] }
          : len \in 1..RegLen }

(* ------------------------------------------------------------- state *)
VARIABLES
  registry,        \* the patches slice the runner walks
  applied,         \* the node's applied-patches store (set of names)
  pc,              \* where the runner is: "idle", "loop", "run", "mark"
  stage,           \* the stage argument of the current/last invocation
  i,               \* index of the patch the loop is at
  appliedPatches,  \* the snapshot read by GetAppliedPatches
  ret,             \* result of the last finished invocation
  calls,           \* invocations started so far
  trace,           \* events of the current/last invocation
  outcomes,        \* per patch name, the results of its body calls so far
  prev,            \* how the invocation before the current one ended
  cause,           \* the error wrapped (%w) in ret, "" when there is none
  runErr,          \* what the last p.run call returned, "" for nil
  names            \* the last result of patchesGetNames, <<>> before any call

\* The cluster a node's patch bodies work against, and each member's run of
\* the cluster-aware patches.
VARIABLES
  serverClustered,     \* d.serverClustered: the deployment is a cluster
  leader,              \* the member d.gateway.LeaderAddress() names now
  leaderChanges,       \* leader elections so far
  nodesAutoInc,        \* the nodes table id column is AUTOINCREMENT
  rebuilt,             \* executions of the nodes-table rebuild: the member and the leader it saw
  trustedServerCerts,  \* member names with a certificate of type server in the trust store
  volUUID,             \* volatile.uuid of every bucket, volume and snapshot
  lastPatch,           \* index of the last cluster patch of the release being started
  nidx,                \* per member, index of the cluster patch it is at
  npc,                 \* per member, where it is in that patch
  napplied,            \* per member, its applied-patches store
  dbCerts,             \* per member, the server certificates read by its last poll
  sawLeader,           \* per member, the leader address it broke out of the wait with (0: none)
  serverCertInt,       \* per member, d.serverCertInt is the server certificate
  nhow,                \* per member and patch, how its body returned nil
  nerr                 \* per member, the error that ended its startup

runnerVars == <<registry, applied, pc, stage, i, appliedPatches, ret, calls, trace, outcomes, prev, cause, runErr>>

clusterVars == <<serverClustered, leader, leaderChanges, nodesAutoInc, rebuilt, trustedServerCerts,
                 volUUID, lastPatch, nidx, npc, napplied, dbCerts, sawLeader, serverCertInt, nhow, nerr>>

\* What the bodies of the storage patches read and write.
VARIABLES
  storageVolumes,      \* per volume, the ".iso" suffixes of its name and whether its config has block.* keys
  changes,             \* RenameVolume and UpdateStoragePoolVolume calls made so far
  sidx,                \* per member, index of the storage patch it is at
  spc,                 \* per member, where it is in that patch
  isLeader             \* per member, the isLeader local of the body

\* What the body of thinpool_typo_fix reads and writes.
VARIABLES
  poolsConfig,         \* the committed rows of storage_pools_config
  tx,                  \* the open transaction's view of the table, NoTx when none is open
  tpc,                 \* where the body is
  poolIdx,             \* index in poolIDs of the pool the loop is at
  nodeIdx,             \* index in nodeIDs of the node the insert loop is at
  value,               \* the pool's global lvm.thinpool_name value
  rolledBack           \* a transaction that had written rows has been rolled back

\* What the body of vm_rename_uuid_key reads and writes.
VARIABLES
  instConfig,          \* per instance and snapshot, its volatile.vm.uuid and volatile.uuid
  vpc,                 \* how the last run of the body ended
  vruns                \* runs of the body so far

\* What the patches wrapped by patchGenericNetwork call.
VARIABLES
  preChecks,           \* the network.PatchPreCheck calls so far: the patch and the error returned
  innerCalls           \* the names the wrapped functions were called with so far

storageVars == <<storageVolumes, changes, sidx, spc, isLeader>>

thinpoolVars == <<poolsConfig, tx, tpc, poolIdx, nodeIdx, value, rolledBack>>

uuidKeyVars == <<instConfig, vpc, vruns>>

networkVars == <<preChecks, innerCalls>>

payloadVars == <<storageVars, thinpoolVars, uuidKeyVars, networkVars>>

vars == <<runnerVars, names, clusterVars, payloadVars>>

\* Cluster members; a member's name and cluster address are its number.
ClusterNodes == 1..NumNodes

\* The patches whose bodies consult the cluster, in registry order.
ClusterPatches == <<"db_nodes_autoinc", "clustering_server_cert_trust", "storage_set_volume_uuid">>

ClusterPatchNames == { ClusterPatches[k] : k \in DOMAIN ClusterPatches }

\* Buckets, volumes and snapshots of all pools.
Volumes == 1..NumVols

\* volatile.uuid == ""
NoUUID == [by |-> 0, obj |-> 0]

\* The slot of an object that does not exist.
NoObject == [by |-> 0 - 1, obj |-> 0]

\* A volatile.uuid set before the patch runs.
OldUUID(o) == [by |-> 0, obj |-> o]

\* uuid.New().String(): a value no other call returns.
NewUUID(n, o) == [by |-> n, obj |-> o]

\* The storage patches whose bodies skip remote pools, in registry order.
StoragePatches == <<"storage_move_custom_iso_block_volumes", "storage_unset_invalid_block_settings">>

\* tx.GetStoragePoolNames(): the pools, each named after its driver.
StoragePools == <<"dir", "lvm", "ceph">>

\* tx.GetStoragePoolDriver(poolID)
PoolDriver(pool) == pool

\* p.Driver().Info().Remote: the pool's storage is shared by all members.
Remote(pool) == PoolDriver(pool) \in {"ceph"}

\* The custom and virtual-machine volumes of the pools; location is the
\* member a volume is on, 0 standing for the empty server name.
VolumeInfo ==
  << [pool |-> "dir",  type |-> "custom",          content |-> "iso",        location |-> 1],
     [pool |-> "lvm",  type |-> "virtual-machine", content |-> "block",      location |-> 2],
     [pool |-> "lvm",  type |-> "custom",          content |-> "filesystem", location |-> 1],
     [pool |-> "ceph", type |-> "custom",          content |-> "iso",        location |-> 0],
     [pool |-> "ceph", type |-> "custom",          content |-> "iso",        location |-> 1],
     [pool |-> "ceph", type |-> "virtual-machine", content |-> "block",      location |-> 0] >>

VolumeIDs == DOMAIN VolumeInfo

\* The volumes before any storage patch ran: no name has the ".iso" suffix,
\* the block.* keys are set on the volumes that are not ISO images.
StorageIdle ==
  /\ storageVolumes = [v \in VolumeIDs |-> [iso |-> 0, blockKeys |-> VolumeInfo[v].content # "iso"]]
  /\ changes = {}
  /\ sidx = [n \in ClusterNodes |-> 1]
  /\ spc = [n \in ClusterNodes |-> "idle"]
  /\ isLeader = [n \in ClusterNodes |-> FALSE]

\* No transaction is open.
NoTx == [open |-> FALSE, rows |-> {}]

\* A row of storage_pools_config; node 0 stands for node_id NULL.
Row(pool, node, key, val) == [pool |-> pool, node |-> node, key |-> key, value |-> val]

\* SELECT id FROM storage_pools WHERE driver='lvm'; pool 3 has another driver.
poolIDs == <<1, 2>>

\* SELECT id FROM nodes
nodeIDs == [k \in 1..NumNodes |-> k]

\* The rows that are in the table whatever the pools' history.
OtherRows == {Row(1, 0, "source", "vg1"), Row(2, 0, "volume.size", "1GiB"), Row(3, 0, "source", "/srv")}

\* The lvm.thinpool_name rows a deployment may have: written with node_id
\* NULL by the releases with the typo, per node by the others.
ThinpoolRows == {Row(1, 0, "lvm.thinpool_name", "tp1"), Row(2, 0, "lvm.thinpool_name", "tp2"),
                 Row(2, 1, "lvm.thinpool_name", "tp2")}

\* The table with the rows some, the body not started.
ThinpoolIdle(some) ==
  /\ poolsConfig = OtherRows \cup some
  /\ tx = NoTx
  /\ tpc = "idle"
  /\ poolIdx = 0
  /\ nodeIdx = 0
  /\ value = ""
  /\ rolledBack = FALSE

\* The instances tx.InstanceList goes through and their snapshots; a
\* snapshot has the type of its instance.
InstanceInfo ==
  << [type |-> "virtual-machine", snapshotOf |-> 0],
     [type |-> "virtual-machine", snapshotOf |-> 1],
     [type |-> "container",       snapshotOf |-> 0],
     [type |-> "container",       snapshotOf |-> 3] >>

InstanceIDs == DOMAIN InstanceInfo

\* The two keys of a config; "" is the value of a key that is not set.
Config(old, new) == [vmuuid |-> old, uuid |-> new]

\* The configs a deployment may have: each key set or not.
InstanceConfigs ==
  [InstanceIDs -> { Config(old, new) : old \in {"", "uuid-a"}, new \in {"", "uuid-b"} }]

\* The configs cfg, the body not run.
UUIDKeyIdle(cfg) ==
  /\ instConfig = cfg
  /\ vpc = "idle"
  /\ vruns = 0

\* No wrapped patch has run.
NetworkIdle ==
  /\ preChecks = <<>>
  /\ innerCalls = <<>>

\* No patch body of the payload models has run.
PayloadIdle ==
  /\ StorageIdle
  /\ ThinpoolIdle({})
  /\ UUIDKeyIdle([o \in InstanceIDs |-> Config("", "")])
  /\ NetworkIdle

\* No member has started; a standalone deployment.
ClusterIdleMembers ==
  /\ serverClustered = FALSE
  /\ leader = 1
  /\ leaderChanges = 0
  /\ nodesAutoInc = FALSE
  /\ rebuilt = <<>>
  /\ trustedServerCerts = {}
  /\ volUUID = [o \in Volumes |-> NoUUID]
  /\ lastPatch = 0
  /\ nidx = [n \in ClusterNodes |-> 1]
  /\ npc = [n \in ClusterNodes |-> "idle"]
  /\ napplied = [n \in ClusterNodes |-> {}]
  /\ dbCerts = [n \in ClusterNodes |-> {}]
  /\ sawLeader = [n \in ClusterNodes |-> 0]
  /\ serverCertInt = [n \in ClusterNodes |-> FALSE]
  /\ nhow = [n \in ClusterNodes |-> [q \in ClusterPatchNames |-> "none"]]
  /\ nerr = [n \in ClusterNodes |-> ""]

\* Nothing has started: no member and no patch body.
ClusterIdle == ClusterIdleMembers /\ PayloadIdle

Ev(e, n) == [ev |-> e, name |-> n]
Result(k, n) == [kind |-> k, name |-> n]
NoResult == Result("none", "")

RegNames(reg) == { reg[k].name : k \in DOMAIN reg }

\* A node before the first invocation, its store holding the names old.
InitStore(reg, old) ==
  /\ registry = reg
  /\ applied = old
  /\ pc = "idle"
  /\ stage = patchNoStageSet
  /\ i = 0
  /\ appliedPatches = {}
  /\ ret = NoResult
  /\ calls = 0
  /\ trace = <<>>
  /\ outcomes = [n \in RegNames(reg) |-> <<>>]
  /\ prev = [ret |-> NoResult, stage |-> patchNoStageSet, applied |-> {}]
  /\ cause = ""
  /\ runErr = ""
  /\ names = <<>>

\* A node with an empty store.
InitWith(reg) == InitStore(reg, {})

Init == (\E reg \in TestRegistries : InitWith(reg)) /\ ClusterIdle

(* ------------------------------------------------- the applied store *)
\* d.db.Node.GetAppliedPatches(): the names recorded on this node.
GetAppliedPatches(store) == store

\* d.db.Node.MarkPatchAsApplied(name): a successful write adds the name.
MarkPatchAsApplied(store, n) == store \cup {n}

(* ------------------------------------------------------ patchesApply *)
\* Variant: the stage check lets every patch through.
HasNoStageIgnored(p) == FALSE

\* patch.stage == patchNoStageSet
HasNoStage(p) == p.stage = patchNoStageSet

\* Variant: resume-by-index, the first patches of the registry, as many as
\* there are recorded names, are taken as applied.
IsAppliedByIndex(n, snapshot) ==
  \E k \in 1..Cardinality(snapshot) : k \in DOMAIN registry /\ registry[k].name = n

\* Variant: the applied snapshot is not consulted.
IsAppliedNever(n, snapshot) == FALSE

\* shared.ValueInSlice(patch.name, appliedPatches)
IsApplied(n, snapshot) == n \in snapshot

\* fmt.Errorf("Failed applying patch %q: %w", p.name, err)
ErrRun(n) == Result("Failed applying patch", n)

\* fmt.Errorf("Failed marking patch applied %q: %w", p.name, err)
ErrMark(n) == Result("Failed marking patch applied", n)

\* fmt.Errorf("Patch %q has no stage set: %d", patch.name, patch.stage)
ErrNoStage(n) == Result("has no stage set", n)

\* the error of GetAppliedPatches, returned as it is
ErrGet == Result("GetAppliedPatches error", "")

\* return nil
Nil == Result("nil", "")

\* Variant: after a failed read the walk starts with an empty list.
patchesApplyBeginGoOn(s) ==
  /\ pc = "idle"
  /\ calls < MaxCalls
  /\ calls' = calls + 1
  /\ stage' = s
  /\ prev' = [ret |-> ret, stage |-> stage, applied |-> applied]
  /\ trace' = <<>>
  /\ cause' = ""
  /\ runErr' = ""
  /\ \E ok \in BOOLEAN :
       IF ok
       THEN /\ appliedPatches' = GetAppliedPatches(applied)
            /\ pc' = "loop"
            /\ i' = 1
            /\ ret' = NoResult
       ELSE /\ appliedPatches' = {}
            /\ pc' = "loop"
            /\ i' = 1
            /\ ret' = ErrGet
  /\ UNCHANGED <<registry, applied, outcomes>>
  /\ UNCHANGED <<names, clusterVars, payloadVars>>

\* Entry of patchesApply(d, s): read the applied set, or return its error.
patchesApplyBegin(s) ==
  /\ pc = "idle"
  /\ calls < MaxCalls
  /\ calls' = calls + 1
  /\ stage' = s
  /\ prev' = [ret |-> ret, stage |-> stage, applied |-> applied]
  /\ trace' = <<>>
  /\ cause' = ""
  /\ runErr' = ""
  /\ \E ok \in BOOLEAN :
       IF ok
       THEN /\ appliedPatches' = GetAppliedPatches(applied)
            /\ pc' = "loop"
            /\ i' = 1
            /\ ret' = NoResult
       ELSE /\ appliedPatches' = {}
            /\ pc' = "idle"
            /\ i' = 0
            /\ ret' = ErrGet
  /\ UNCHANGED <<registry, applied, outcomes>>
  /\ UNCHANGED <<names, clusterVars, payloadVars>>

\* Variant: the applied test comes before the stage test.
patchesApplyLoopAppliedFirst ==
  /\ pc = "loop"
  /\ IF i > Len(registry)
     THEN /\ pc' = "idle"
          /\ ret' = Nil
          /\ UNCHANGED <<i, trace>>
     ELSE IF registry[i].name \in appliedPatches
     THEN /\ i' = i + 1
          /\ UNCHANGED <<pc, ret, trace>>
     ELSE IF registry[i].stage = patchNoStageSet
     THEN /\ pc' = "idle"
          /\ ret' = ErrNoStage(registry[i].name)
          /\ UNCHANGED <<i, trace>>
     ELSE /\ pc' = "run"
          /\ trace' = Append(trace, Ev("start", registry[i].name))
          /\ UNCHANGED <<i, ret>>
  /\ UNCHANGED <<registry, applied, stage, appliedPatches, calls, outcomes, prev>>
  /\ UNCHANGED <<cause, runErr, names, clusterVars, payloadVars>>

\* Variant: the applied set is read from the store again for every patch.
patchesApplyLoopReadEach ==
  /\ pc = "loop"
  /\ appliedPatches' = GetAppliedPatches(applied)
  /\ IF i > Len(registry)
     THEN /\ pc' = "idle"
          /\ ret' = Nil
          /\ UNCHANGED <<i, trace>>
     ELSE IF registry[i].stage = patchNoStageSet
     THEN /\ pc' = "idle"
          /\ ret' = ErrNoStage(registry[i].name)
          /\ UNCHANGED <<i, trace>>
     ELSE IF registry[i].name \in appliedPatches'
     THEN /\ i' = i + 1
          /\ UNCHANGED <<pc, ret, trace>>
     ELSE /\ pc' = "run"
          /\ trace' = Append(trace, Ev("start", registry[i].name))
          /\ UNCHANGED <<i, ret>>
  /\ UNCHANGED <<registry, applied, stage, calls, outcomes, prev>>
  /\ UNCHANGED <<cause, runErr, names, clusterVars, payloadVars>>

\* One iteration of "for _, patch := range patches" up to the call of
\* patch.apply, or the return nil after the last patch.
patchesApplyLoop ==
  /\ pc = "loop"
  /\ IF i > Len(registry)
     THEN /\ pc' = "idle"
          /\ ret' = Nil
          /\ UNCHANGED <<i, trace>>
     ELSE IF HasNoStage(registry[i])
     THEN /\ pc' = "idle"
          /\ ret' = ErrNoStage(registry[i].name)
          /\ UNCHANGED <<i, trace>>
     ELSE IF IsApplied(registry[i].name, appliedPatches)
     THEN /\ i' = i + 1
          /\ UNCHANGED <<pc, ret, trace>>
     ELSE /\ pc' = "run"
          /\ trace' = Append(trace, Ev("start", registry[i].name))
          /\ UNCHANGED <<i, ret>>
  /\ UNCHANGED <<registry, applied, stage, appliedPatches, calls, outcomes, prev>>
  /\ UNCHANGED <<cause, runErr, names, clusterVars, payloadVars>>

\* Errors a patch body (p.run) can return.
BodyErrors == {"body error 1", "body error 2"}

\* Variant: the loop goes on to the next patch after a body error.
applyRunSwallowError ==
  /\ pc = "run"
  /\ \E ok \in BOOLEAN :
       /\ outcomes' = [outcomes EXCEPT ![registry[i].name] = Append(@, ok)]
       /\ IF ok
          THEN /\ pc' = "mark"
               /\ trace' = Append(trace, Ev("ok", registry[i].name))
               /\ UNCHANGED <<ret, i>>
          ELSE /\ pc' = "loop"
               /\ i' = i + 1
               /\ trace' = Append(trace, Ev("fail", registry[i].name))
               /\ UNCHANGED ret
  /\ UNCHANGED <<registry, applied, stage, appliedPatches, calls, prev>>
  /\ runErr' = ""
  /\ UNCHANGED <<cause, names, clusterVars, payloadVars>>

\* Variant: patch.apply goes on to MarkPatchAsApplied whatever p.run returned.
applyRunMarkAnyway ==
  /\ pc = "run"
  /\ \E ok \in BOOLEAN :
       /\ outcomes' = [outcomes EXCEPT ![registry[i].name] = Append(@, ok)]
       /\ pc' = "mark"
       /\ trace' = Append(trace, Ev(IF ok THEN "ok" ELSE "fail", registry[i].name))
       /\ UNCHANGED ret
  /\ UNCHANGED <<registry, applied, stage, i, appliedPatches, calls, prev>>
  /\ runErr' = ""
  /\ UNCHANGED <<cause, names, clusterVars, payloadVars>>

\* Variant: the body's error is formatted into the message, not wrapped.
applyRunDropCause ==
  /\ pc = "run"
  /\ \E err \in {""} \cup BodyErrors :
       /\ outcomes' = [outcomes EXCEPT ![registry[i].name] = Append(@, err = "")]
       /\ runErr' = err
       /\ IF err = ""
          THEN /\ pc' = "mark"
               /\ trace' = Append(trace, Ev("ok", registry[i].name))
               /\ UNCHANGED ret
          ELSE /\ pc' = "idle"
               /\ trace' = Append(trace, Ev("fail", registry[i].name))
               /\ ret' = ErrRun(registry[i].name)
  /\ UNCHANGED <<registry, applied, stage, i, appliedPatches, calls, prev, cause>>
  /\ UNCHANGED <<names, clusterVars, payloadVars>>

\* patch.apply: p.run returns; an error is wrapped and returned by
\* patch.apply and then by patchesApply.
applyRun ==
  /\ pc = "run"
  /\ \E err \in {""} \cup BodyErrors :
       /\ outcomes' = [outcomes EXCEPT ![registry[i].name] = Append(@, err = "")]
       /\ runErr' = err
       /\ IF err = ""
          THEN /\ pc' = "mark"
               /\ trace' = Append(trace, Ev("ok", registry[i].name))
               /\ UNCHANGED <<ret, cause>>
          ELSE /\ pc' = "idle"
               /\ trace' = Append(trace, Ev("fail", registry[i].name))
               /\ ret' = ErrRun(registry[i].name)
               /\ cause' = err
  /\ UNCHANGED <<registry, applied, stage, i, appliedPatches, calls, prev>>
  /\ UNCHANGED <<names, clusterVars, payloadVars>>

\* Variant: patch.apply returns nil without writing the name.
applyMarkSkipWrite ==
  /\ pc = "mark"
  /\ i' = i + 1
  /\ pc' = "loop"
  /\ UNCHANGED <<registry, applied, stage, appliedPatches, ret, calls, trace, outcomes, prev>>
  /\ UNCHANGED <<cause, runErr, names, clusterVars, payloadVars>>

\* Variant: an error of MarkPatchAsApplied is dropped and the loop goes on.
applyMarkIgnoreError ==
  /\ pc = "mark"
  /\ \E ok \in BOOLEAN :
       /\ applied' = IF ok THEN MarkPatchAsApplied(applied, registry[i].name) ELSE applied
       /\ trace' = Append(trace, Ev(IF ok THEN "mark" ELSE "markfail", registry[i].name))
       /\ i' = i + 1
       /\ pc' = "loop"
       /\ UNCHANGED ret
  /\ UNCHANGED <<registry, stage, appliedPatches, calls, outcomes, prev>>
  /\ UNCHANGED <<cause, runErr, names, clusterVars, payloadVars>>

\* patch.apply: MarkPatchAsApplied after a successful body; on success
\* patch.apply returns nil and the loop goes to the next patch.
applyMark ==
  /\ pc = "mark"
  /\ \E ok \in BOOLEAN :
       IF ok
       THEN /\ applied' = MarkPatchAsApplied(applied, registry[i].name)
            /\ trace' = Append(trace, Ev("mark", registry[i].name))
            /\ i' = i + 1
            /\ pc' = "loop"
            /\ UNCHANGED ret
       ELSE /\ pc' = "idle"
            /\ trace' = Append(trace, Ev("markfail", registry[i].name))
            /\ ret' = ErrMark(registry[i].name)
            /\ UNCHANGED <<applied, i>>
  /\ UNCHANGED <<registry, stage, appliedPatches, calls, outcomes, prev>>
  /\ UNCHANGED <<cause, runErr, names, clusterVars, payloadVars>>

\* The process stops while a body runs or between body success and the
\* mark write; only the store survives.
Crash ==
  /\ pc \in {"run", "mark"}
  /\ ret' = Result(IF pc = "mark" THEN "crash before mark" ELSE "crash in body", registry[i].name)
  /\ pc' = "idle"
  /\ UNCHANGED <<registry, applied, stage, i, appliedPatches, calls, trace, outcomes, prev>>
  /\ UNCHANGED <<cause, runErr, names, clusterVars, payloadVars>>

Next ==
  \/ \E s \in RequestedStages : patchesApplyBegin(s)
  \/ patchesApplyLoop
  \/ applyRun
  \/ applyMark
  \/ Crash

Spec == Init /\ [][Next]_vars

(* --------------------------------------------------- patchesGetNames *)
\* patchesGetNames(): a slice of len(patches) strings, names[i] set to the
\* name of patch i unless its stage is patchNoStageSet (then left "").
patchesGetNames(reg) ==
  [k \in 1..Len(reg) |-> IF reg[k].stage = patchNoStageSet THEN "" ELSE reg[k].name]

\* A caller asks for the patch names.
GetNames ==
  /\ names' = patchesGetNames(registry)
  /\ UNCHANGED <<runnerVars, clusterVars, payloadVars>>

NextNames == GetNames

SpecNames == Init /\ [][NextNames]_vars

(* -------------------------------------- registries with a name twice *)
\* Registries of 2..RegLen patches of one valid stage in which the name of
\* the first patch occurs again.
DupRegistries ==
  UNION { { [k \in 1..len |-> patch(TestNames[nm[k]], st)] :
              nm \in { f \in [1..len -> 1..(len - 1)] : f[1] = 1 /\ \E k \in 2..len : f[k] = 1 },
              st \in RequestedStages }
          : len \in 2..RegLen }

InitDup == (\E reg \in DupRegistries : InitWith(reg)) /\ ClusterIdle

SpecDup == InitDup /\ [][Next]_vars

(* ------------------------------------------ daemon bootstrap, shipped *)
\* The stage the daemon's startup asks for next: pre-storage at a process
\* start (the first one, or after an invocation that did not return nil, or
\* after the last stage), else the stage after the one that returned nil.
BootStage ==
  IF calls = 0 \/ ret # Nil \/ stage = patchPostNetworks
  THEN patchPreDaemonStorage
  ELSE stage + 1

\* The daemon's startup calls patchesApply for the next stage.
Bootstrap == patchesApplyBegin(BootStage)

InitShipped == InitWith(patches) /\ ClusterIdle

NextShipped ==
  \/ Bootstrap
  \/ patchesApplyLoop
  \/ applyRun
  \/ applyMark
  \/ Crash

SpecShipped == InitShipped /\ [][NextShipped]_vars

(* ------------------------------- a store written by earlier releases *)
\* A node upgraded from a release whose registry had some of the patches of
\* this one, at any position: its store holds their names.
InitRecorded ==
  /\ \E reg \in TestRegistries :
     \E old \in SUBSET RegNames(reg) : old # {} /\ old # RegNames(reg) /\ InitStore(reg, old)
  /\ ClusterIdle

SpecRecorded == InitRecorded /\ [][NextShipped]_vars

(* ------------------------------------------- cluster-aware patches *)
\* tx.GetNodes(): the cluster members.
Members == ClusterNodes

\* The members that exist: all of them in a cluster, the first one alone else.
Runs(n) == serverClustered \/ n = 1

\* Where the body of a cluster patch starts.
EntryOf(q) ==
  CASE q = "db_nodes_autoinc" -> "db_schema"
    [] q = "clustering_server_cert_trust" -> "ct_entry"
    [] q = "storage_set_volume_uuid" -> "vol_run"

\* The patch member n is at.
CurPatch(n) == ClusterPatches[nidx[n]]

\* Variant: a patch recorded by any member is skipped by the others.
memberApplyClusterWide(n) ==
  /\ Runs(n)
  /\ npc[n] = "idle"
  /\ nidx[n] <= lastPatch
  /\ IF \E m \in ClusterNodes : CurPatch(n) \in napplied[m]
     THEN /\ nidx' = [nidx EXCEPT ![n] = @ + 1]
          /\ UNCHANGED npc
     ELSE /\ npc' = [npc EXCEPT ![n] = EntryOf(CurPatch(n))]
          /\ UNCHANGED nidx
  /\ UNCHANGED <<serverClustered, leader, leaderChanges, nodesAutoInc, rebuilt, trustedServerCerts, volUUID, napplied, dbCerts, sawLeader, serverCertInt, nhow, nerr>>
  /\ UNCHANGED <<runnerVars, names, lastPatch, payloadVars>>

\* Member n's patchesApply reaches its next pending cluster patch and
\* patch.apply calls its body.
memberApply(n) ==
  /\ Runs(n)
  /\ npc[n] = "idle"
  /\ nidx[n] <= lastPatch
  /\ npc' = [npc EXCEPT ![n] = EntryOf(CurPatch(n))]
  /\ UNCHANGED <<serverClustered, leader, leaderChanges, nodesAutoInc, rebuilt, trustedServerCerts, volUUID, nidx, napplied, dbCerts, sawLeader, serverCertInt, nhow, nerr>>
  /\ UNCHANGED <<runnerVars, names, lastPatch, payloadVars>>

\* patch.apply on member n after its body returned nil: MarkPatchAsApplied,
\* then the loop goes on; an error of the write ends the startup.
memberMark(n) ==
  /\ npc[n] = "ok"
  /\ \E ok \in BOOLEAN :
       IF ok
       THEN /\ napplied' = [napplied EXCEPT ![n] = MarkPatchAsApplied(@, CurPatch(n))]
            /\ nidx' = [nidx EXCEPT ![n] = @ + 1]
            /\ npc' = [npc EXCEPT ![n] = "idle"]
            /\ UNCHANGED nerr
       ELSE /\ npc' = [npc EXCEPT ![n] = "failed"]
            /\ nerr' = [nerr EXCEPT ![n] = "mark error"]
            /\ UNCHANGED <<napplied, nidx>>
  /\ UNCHANGED <<serverClustered, leader, leaderChanges, nodesAutoInc, rebuilt, trustedServerCerts, volUUID, dbCerts, sawLeader, serverCertInt, nhow>>
  /\ UNCHANGED <<runnerVars, names, lastPatch, payloadVars>>

\* Variant: the schema read does not end the patch.
dbSchemaNoSkip(n) ==
  /\ npc[n] = "db_schema"
  /\ \E ok \in BOOLEAN :
       IF ~ok
       THEN /\ npc' = [npc EXCEPT ![n] = "failed"]
            /\ nerr' = [nerr EXCEPT ![n] = "schema query error"]
            /\ UNCHANGED nhow
       ELSE /\ npc' = [npc EXCEPT ![n] = "db_leader"]
            /\ UNCHANGED <<nhow, nerr>>
  /\ UNCHANGED <<serverClustered, leader, leaderChanges, nodesAutoInc, rebuilt, trustedServerCerts, volUUID, nidx, napplied, dbCerts, sawLeader, serverCertInt>>
  /\ UNCHANGED <<runnerVars, names, lastPatch, payloadVars>>

\* patchDBNodesAutoInc, top of the loop: read the schema of the nodes table;
\* return nil when the id column is AUTOINCREMENT already.
dbSchema(n) ==
  /\ npc[n] = "db_schema"
  /\ \E ok \in BOOLEAN :
       IF ~ok
       THEN /\ npc' = [npc EXCEPT ![n] = "failed"]
            /\ nerr' = [nerr EXCEPT ![n] = "schema query error"]
            /\ UNCHANGED nhow
       ELSE IF nodesAutoInc
       THEN /\ npc' = [npc EXCEPT ![n] = "ok"]
            /\ nhow' = [nhow EXCEPT ![n]["db_nodes_autoinc"] = "skipped"]
            /\ UNCHANGED nerr
       ELSE /\ npc' = [npc EXCEPT ![n] = "db_leader"]
            /\ UNCHANGED <<nhow, nerr>>
  /\ UNCHANGED <<serverClustered, leader, leaderChanges, nodesAutoInc, rebuilt, trustedServerCerts, volUUID, nidx, napplied, dbCerts, sawLeader, serverCertInt>>
  /\ UNCHANGED <<runnerVars, names, lastPatch, payloadVars>>

\* A leader check that lets every member break out of the loop.
dbLeaderAnyMember(n) ==
  /\ npc[n] = "db_leader"
  /\ \E r \in {"ok", "config load error", "leader address error"} :
       IF r # "ok"
       THEN /\ npc' = [npc EXCEPT ![n] = "failed"]
            /\ nerr' = [nerr EXCEPT ![n] = r]
            /\ UNCHANGED sawLeader
       ELSE IF ~serverClustered
       THEN /\ npc' = [npc EXCEPT ![n] = "db_exec"]
            /\ UNCHANGED <<sawLeader, nerr>>
       ELSE /\ sawLeader' = [sawLeader EXCEPT ![n] = leader]
            /\ npc' = [npc EXCEPT ![n] = "db_exec"]
            /\ UNCHANGED nerr
  /\ UNCHANGED <<serverClustered, leader, leaderChanges, nodesAutoInc, rebuilt, trustedServerCerts, volUUID, nidx, napplied, dbCerts, serverCertInt, nhow>>
  /\ UNCHANGED <<runnerVars, names, lastPatch, payloadVars>>

\* A leader check that takes "not clustered" for an error like any other.
dbLeaderStandaloneFails(n) ==
  /\ npc[n] = "db_leader"
  /\ \E r \in {"ok", "config load error", "leader address error"} :
       IF r # "ok"
       THEN /\ npc' = [npc EXCEPT ![n] = "failed"]
            /\ nerr' = [nerr EXCEPT ![n] = r]
            /\ UNCHANGED sawLeader
       ELSE IF ~serverClustered
       THEN /\ npc' = [npc EXCEPT ![n] = "failed"]
            /\ nerr' = [nerr EXCEPT ![n] = "node is not clustered"]
            /\ UNCHANGED sawLeader
       ELSE /\ sawLeader' = [sawLeader EXCEPT ![n] = IF n = leader THEN leader ELSE 0]
            /\ npc' = [npc EXCEPT ![n] = IF n = leader THEN "db_exec" ELSE "db_schema"]
            /\ UNCHANGED nerr
  /\ UNCHANGED <<serverClustered, leader, leaderChanges, nodesAutoInc, rebuilt, trustedServerCerts, volUUID, nidx, napplied, dbCerts, serverCertInt, nhow>>
  /\ UNCHANGED <<runnerVars, names, lastPatch, payloadVars>>

\* A leader check that gives up with an error instead of sleeping.
dbLeaderTimeout(n) ==
  /\ npc[n] = "db_leader"
  /\ \E r \in {"ok", "config load error", "leader address error"} :
       IF r # "ok"
       THEN /\ npc' = [npc EXCEPT ![n] = "failed"]
            /\ nerr' = [nerr EXCEPT ![n] = r]
            /\ UNCHANGED sawLeader
       ELSE IF ~serverClustered
       THEN /\ npc' = [npc EXCEPT ![n] = "db_exec"]
            /\ UNCHANGED <<sawLeader, nerr>>
       ELSE IF n = leader
       THEN /\ sawLeader' = [sawLeader EXCEPT ![n] = leader]
            /\ npc' = [npc EXCEPT ![n] = "db_exec"]
            /\ UNCHANGED nerr
       ELSE /\ npc' = [npc EXCEPT ![n] = "failed"]
            /\ nerr' = [nerr EXCEPT ![n] = "timed out"]
            /\ UNCHANGED sawLeader
  /\ UNCHANGED <<serverClustered, leader, leaderChanges, nodesAutoInc, rebuilt, trustedServerCerts, volUUID, nidx, napplied, dbCerts, serverCertInt, nhow>>
  /\ UNCHANGED <<runnerVars, names, lastPatch, payloadVars>>

\* patchDBNodesAutoInc, rest of the loop: load the local config, ask for the
\* leader; break on a standalone node or on the leader, else sleep and loop.
dbLeader(n) ==
  /\ npc[n] = "db_leader"
  /\ \E r \in {"ok", "config load error", "leader address error"} :
       IF r # "ok"
       THEN /\ npc' = [npc EXCEPT ![n] = "failed"]
            /\ nerr' = [nerr EXCEPT ![n] = r]
            /\ UNCHANGED sawLeader
       ELSE IF ~serverClustered
       THEN /\ npc' = [npc EXCEPT ![n] = "db_exec"]
            /\ UNCHANGED <<sawLeader, nerr>>
       ELSE /\ sawLeader' = [sawLeader EXCEPT ![n] = IF n = leader THEN leader ELSE 0]
            /\ npc' = [npc EXCEPT ![n] = IF n = leader THEN "db_exec" ELSE "db_schema"]
            /\ UNCHANGED nerr
  /\ UNCHANGED <<serverClustered, leader, leaderChanges, nodesAutoInc, rebuilt, trustedServerCerts, volUUID, nidx, napplied, dbCerts, serverCertInt, nhow>>
  /\ UNCHANGED <<runnerVars, names, lastPatch, payloadVars>>

\* patchDBNodesAutoInc after the loop: execute the rebuild of the nodes table.
dbExec(n) ==
  /\ npc[n] = "db_exec"
  /\ sawLeader' = [sawLeader EXCEPT ![n] = 0]
  /\ \E ok \in BOOLEAN :
       IF ok
       THEN /\ nodesAutoInc' = TRUE
            /\ rebuilt' = Append(rebuilt, [member |-> n, saw |-> sawLeader[n]])
            /\ npc' = [npc EXCEPT ![n] = "ok"]
            /\ nhow' = [nhow EXCEPT ![n]["db_nodes_autoinc"] = "rebuilt"]
            /\ UNCHANGED nerr
       ELSE /\ npc' = [npc EXCEPT ![n] = "failed"]
            /\ nerr' = [nerr EXCEPT ![n] = "exec error"]
            /\ UNCHANGED <<nodesAutoInc, rebuilt, nhow>>
  /\ UNCHANGED <<serverClustered, leader, leaderChanges, trustedServerCerts, volUUID, nidx, napplied, dbCerts, serverCertInt>>
  /\ UNCHANGED <<runnerVars, names, lastPatch, payloadVars>>

\* Variant: the wait starts without the local certificate being added.
ctEntryNoAdd(n) ==
  /\ npc[n] = "ct_entry"
  /\ IF ~serverClustered
     THEN /\ npc' = [npc EXCEPT ![n] = "ok"]
          /\ nhow' = [nhow EXCEPT ![n]["clustering_server_cert_trust"] = "not clustered"]
          /\ UNCHANGED <<trustedServerCerts, nerr>>
     ELSE \E ok \in BOOLEAN :
            IF ok
            THEN /\ npc' = [npc EXCEPT ![n] = "ct_certs"]
                 /\ UNCHANGED <<trustedServerCerts, nhow, nerr>>
            ELSE /\ npc' = [npc EXCEPT ![n] = "failed"]
                 /\ nerr' = [nerr EXCEPT ![n] = "trust store error"]
                 /\ UNCHANGED <<trustedServerCerts, nhow>>
  /\ UNCHANGED serverCertInt
  /\ UNCHANGED <<serverClustered, leader, leaderChanges, nodesAutoInc, rebuilt, volUUID, nidx, napplied, dbCerts, sawLeader>>
  /\ UNCHANGED <<runnerVars, names, lastPatch, payloadVars>>

\* Variant: the switch to the server certificate is made before the wait.
ctEntrySwitchFirst(n) ==
  /\ npc[n] = "ct_entry"
  /\ IF ~serverClustered
     THEN /\ npc' = [npc EXCEPT ![n] = "ok"]
          /\ nhow' = [nhow EXCEPT ![n]["clustering_server_cert_trust"] = "not clustered"]
          /\ UNCHANGED <<trustedServerCerts, serverCertInt, nerr>>
     ELSE \E ok \in BOOLEAN :
            IF ok
            THEN /\ trustedServerCerts' = trustedServerCerts \cup {n}
                 /\ serverCertInt' = [serverCertInt EXCEPT ![n] = TRUE]
                 /\ npc' = [npc EXCEPT ![n] = "ct_certs"]
                 /\ UNCHANGED <<nhow, nerr>>
            ELSE /\ npc' = [npc EXCEPT ![n] = "failed"]
                 /\ nerr' = [nerr EXCEPT ![n] = "trust store error"]
                 /\ UNCHANGED <<trustedServerCerts, serverCertInt, nhow>>
  /\ UNCHANGED <<serverClustered, leader, leaderChanges, nodesAutoInc, rebuilt, volUUID, nidx, napplied, dbCerts, sawLeader>>
  /\ UNCHANGED <<runnerVars, names, lastPatch, payloadVars>>

\* patchClusteringServerCertTrust up to the wait loop: return nil when not
\* clustered, else add the local server certificate to the trust store.
ctEntry(n) ==
  /\ npc[n] = "ct_entry"
  /\ IF ~serverClustered
     THEN /\ npc' = [npc EXCEPT ![n] = "ok"]
          /\ nhow' = [nhow EXCEPT ![n]["clustering_server_cert_trust"] = "not clustered"]
          /\ UNCHANGED <<trustedServerCerts, nerr>>
     ELSE \E ok \in BOOLEAN :
            IF ok
            THEN /\ trustedServerCerts' = trustedServerCerts \cup {n}
                 /\ npc' = [npc EXCEPT ![n] = "ct_certs"]
                 /\ UNCHANGED <<nhow, nerr>>
            ELSE /\ npc' = [npc EXCEPT ![n] = "failed"]
                 /\ nerr' = [nerr EXCEPT ![n] = "trust store error"]
                 /\ UNCHANGED <<trustedServerCerts, nhow>>
  /\ UNCHANGED <<serverClustered, leader, leaderChanges, nodesAutoInc, rebuilt, volUUID, nidx, napplied, dbCerts, sawLeader, serverCertInt>>
  /\ UNCHANGED <<runnerVars, names, lastPatch, payloadVars>>

\* A first read that is done on the first iteration only.
ctGetCertificatesOnce(n) ==
  /\ npc[n] = "ct_certs"
  /\ \E ok \in BOOLEAN :
       IF ok
       THEN /\ dbCerts' = [dbCerts EXCEPT ![n] = IF @ = {} THEN trustedServerCerts ELSE @]
            /\ npc' = [npc EXCEPT ![n] = "ct_members"]
            /\ UNCHANGED nerr
       ELSE /\ npc' = [npc EXCEPT ![n] = "failed"]
            /\ nerr' = [nerr EXCEPT ![n] = "certificates read error"]
            /\ UNCHANGED dbCerts
  /\ UNCHANGED <<serverClustered, leader, leaderChanges, nodesAutoInc, rebuilt, trustedServerCerts, volUUID, nidx, napplied, sawLeader, serverCertInt, nhow>>
  /\ UNCHANGED <<runnerVars, names, lastPatch, payloadVars>>

\* Wait loop, first read: the certificates of type server in the trust store.
ctGetCertificates(n) ==
  /\ npc[n] = "ct_certs"
  /\ \E ok \in BOOLEAN :
       IF ok
       THEN /\ dbCerts' = [dbCerts EXCEPT ![n] = trustedServerCerts]
            /\ npc' = [npc EXCEPT ![n] = "ct_members"]
            /\ UNCHANGED nerr
       ELSE /\ npc' = [npc EXCEPT ![n] = "failed"]
            /\ nerr' = [nerr EXCEPT ![n] = "certificates read error"]
            /\ UNCHANGED dbCerts
  /\ UNCHANGED <<serverClustered, leader, leaderChanges, nodesAutoInc, rebuilt, trustedServerCerts, volUUID, nidx, napplied, sawLeader, serverCertInt, nhow>>
  /\ UNCHANGED <<runnerVars, names, lastPatch, payloadVars>>

\* A test that looks for the local member's certificate only.
ctGetNodesOwnOnly(n) ==
  /\ npc[n] = "ct_members"
  /\ \E ok \in BOOLEAN :
       IF ~ok
       THEN /\ npc' = [npc EXCEPT ![n] = "failed"]
            /\ nerr' = [nerr EXCEPT ![n] = "members read error"]
            /\ dbCerts' = [dbCerts EXCEPT ![n] = {}]
            /\ UNCHANGED <<serverCertInt, nhow>>
       ELSE IF n \notin dbCerts[n]
       THEN /\ npc' = [npc EXCEPT ![n] = "ct_certs"]
            /\ UNCHANGED <<dbCerts, serverCertInt, nhow, nerr>>
       ELSE /\ serverCertInt' = [serverCertInt EXCEPT ![n] = TRUE]
            /\ npc' = [npc EXCEPT ![n] = "ok"]
            /\ nhow' = [nhow EXCEPT ![n]["clustering_server_cert_trust"] = "all trusted"]
            /\ dbCerts' = [dbCerts EXCEPT ![n] = {}]
            /\ UNCHANGED nerr
  /\ UNCHANGED <<serverClustered, leader, leaderChanges, nodesAutoInc, rebuilt, trustedServerCerts, volUUID, nidx, napplied, sawLeader>>
  /\ UNCHANGED <<runnerVars, names, lastPatch, payloadVars>>

\* Wait loop, second read and test: the members; sleep and poll again when
\* one has no trusted server certificate, else switch to the server
\* certificate and return nil.
ctGetNodes(n) ==
  /\ npc[n] = "ct_members"
  /\ \E ok \in BOOLEAN :
       IF ~ok
       THEN /\ npc' = [npc EXCEPT ![n] = "failed"]
            /\ nerr' = [nerr EXCEPT ![n] = "members read error"]
            /\ dbCerts' = [dbCerts EXCEPT ![n] = {}]
            /\ UNCHANGED <<serverCertInt, nhow>>
       ELSE IF \E member \in Members : member \notin dbCerts[n]
       THEN /\ npc' = [npc EXCEPT ![n] = "ct_certs"]
            /\ UNCHANGED <<dbCerts, serverCertInt, nhow, nerr>>
       ELSE /\ serverCertInt' = [serverCertInt EXCEPT ![n] = TRUE]
            /\ npc' = [npc EXCEPT ![n] = "ok"]
            /\ nhow' = [nhow EXCEPT ![n]["clustering_server_cert_trust"] = "all trusted"]
            /\ dbCerts' = [dbCerts EXCEPT ![n] = {}]
            /\ UNCHANGED nerr
  /\ UNCHANGED <<serverClustered, leader, leaderChanges, nodesAutoInc, rebuilt, trustedServerCerts, volUUID, nidx, napplied, sawLeader>>
  /\ UNCHANGED <<runnerVars, names, lastPatch, payloadVars>>

\* What GetStoragePoolBuckets, GetStoragePoolVolumes and
\* GetLocalStoragePoolVolumeSnapshotsWithType return over all pools: every
\* bucket, volume and snapshot there is.
ListedObjects == { o \in Volumes : volUUID[o] # NoObject }

\* Buckets, volumes and snapshots without a volatile.uuid.
NoUUIDYet == { o \in ListedObjects : volUUID[o] = NoUUID }

\* GetStoragePoolNames finds no pool: the deployment has no storage object.
NoPools == \A o \in Volumes : volUUID[o] = NoObject

\* patchStorageSetVolumeUUID: nil when there is no pool; nil at once on a
\* clustered member that is not the leader; else every object without a
\* volatile.uuid gets a new one, an update error leaving the rest unset.
volRun(n) ==
  /\ npc[n] = "vol_run"
  /\ \/ /\ NoPools
        /\ npc' = [npc EXCEPT ![n] = "ok"]
        /\ nhow' = [nhow EXCEPT ![n]["storage_set_volume_uuid"] = "no pools"]
        /\ UNCHANGED <<volUUID, nerr>>
     \/ /\ \E e \in {"pool names error"} \cup (IF serverClustered THEN {"leader address error"} ELSE {}) :
             nerr' = [nerr EXCEPT ![n] = e]
        /\ npc' = [npc EXCEPT ![n] = "failed"]
        /\ UNCHANGED <<volUUID, nhow>>
     \/ /\ ~NoPools
        /\ serverClustered /\ n # leader
        /\ npc' = [npc EXCEPT ![n] = "ok"]
        /\ nhow' = [nhow EXCEPT ![n]["storage_set_volume_uuid"] = "not leader"]
        /\ UNCHANGED <<volUUID, nerr>>
     \/ /\ ~NoPools
        /\ ~serverClustered \/ n = leader
        /\ \E done \in SUBSET NoUUIDYet :
             /\ volUUID' = [o \in Volumes |-> IF o \in done THEN NewUUID(n, o) ELSE volUUID[o]]
             /\ IF done = NoUUIDYet
                THEN /\ npc' = [npc EXCEPT ![n] = "ok"]
                     /\ nhow' = [nhow EXCEPT ![n]["storage_set_volume_uuid"] = "leader"]
                     /\ UNCHANGED nerr
                ELSE /\ npc' = [npc EXCEPT ![n] = "failed"]
                     /\ nerr' = [nerr EXCEPT ![n] = "update error"]
                     /\ UNCHANGED nhow
  /\ UNCHANGED <<serverClustered, leader, leaderChanges, nodesAutoInc, rebuilt, trustedServerCerts, nidx, napplied, dbCerts, sawLeader, serverCertInt>>
  /\ UNCHANGED <<runnerVars, names, lastPatch, payloadVars>>

\* The daemon of member n, whose startup failed, is started again: its
\* patchesApply skips what its store holds and comes to the same patch.
memberRestart(n) ==
  /\ npc[n] = "failed"
  /\ npc' = [npc EXCEPT ![n] = "idle"]
  /\ nerr' = [nerr EXCEPT ![n] = ""]
  /\ dbCerts' = [dbCerts EXCEPT ![n] = {}]
  /\ UNCHANGED <<serverClustered, leader, leaderChanges, nodesAutoInc, rebuilt, trustedServerCerts, volUUID, nidx, napplied, sawLeader, serverCertInt, nhow>>
  /\ UNCHANGED <<runnerVars, names, lastPatch, payloadVars>>

\* The cluster elects another leader.
LeaderChange ==
  /\ serverClustered
  /\ leaderChanges < MaxLeaderChanges
  /\ leaderChanges' = leaderChanges + 1
  /\ \E l \in ClusterNodes \ {leader} : leader' = l
  /\ UNCHANGED <<serverClustered, nodesAutoInc, rebuilt, trustedServerCerts, volUUID, nidx, npc, napplied, dbCerts, sawLeader, serverCertInt, nhow, nerr>>
  /\ UNCHANGED <<runnerVars, names, lastPatch, payloadVars>>

\* The releases an upgrade starts: each one added cluster patches first..last
\* of the registry to what the members had applied before.
Upgrades == {<<1, 1>>, <<2, 2>>, <<3, 3>>, <<1, 2>>, <<2, 3>>}

\* The upgrades that contain a convergence wait only.
WaitUpgrades == {<<1, 1>>, <<2, 2>>}

\* A deployment before the members start the release up: standalone or
\* clustered with some leader, the nodes table rebuilt or not, volatile.uuid
\* set on some objects, the cluster patches before the first one applied.
InitUpgrade(up) ==
  /\ InitWith(patches)
  /\ PayloadIdle
  /\ serverClustered \in BOOLEAN
  /\ leader \in (IF serverClustered THEN ClusterNodes ELSE {1})
  /\ leaderChanges = 0
  /\ nodesAutoInc \in (IF up[1] = 1 THEN BOOLEAN ELSE {TRUE})
  /\ rebuilt = <<>>
  /\ trustedServerCerts = (IF up[1] > 2 /\ serverClustered THEN ClusterNodes ELSE {})
  /\ volUUID \in (IF up[2] = 3
                  THEN {[o \in Volumes |-> NoUUID],
                        [o \in Volumes |-> IF o = 1 THEN OldUUID(o) ELSE NoUUID],
                        [o \in Volumes |-> NoObject]}
                  ELSE {[o \in Volumes |-> NoUUID]})
  /\ lastPatch = up[2]
  /\ nidx = [n \in ClusterNodes |-> up[1]]
  /\ npc = [n \in ClusterNodes |-> "idle"]
  /\ napplied = [n \in ClusterNodes |-> { ClusterPatches[k] : k \in 1..(up[1] - 1) }]
  /\ dbCerts = [n \in ClusterNodes |-> {}]
  /\ sawLeader = [n \in ClusterNodes |-> 0]
  /\ serverCertInt = [n \in ClusterNodes |-> up[1] > 2 /\ serverClustered]
  /\ nhow = [n \in ClusterNodes |-> [q \in ClusterPatchNames |-> "none"]]
  /\ nerr = [n \in ClusterNodes |-> ""]

InitCluster == \E up \in Upgrades : InitUpgrade(up)

InitWaits == \E up \in WaitUpgrades : InitUpgrade(up)

\* The steps of member n's startup.
MemberStep(n) ==
  \/ memberApply(n)
  \/ memberMark(n)
  \/ dbSchema(n)
  \/ dbLeader(n)
  \/ dbExec(n)
  \/ ctEntry(n)
  \/ ctGetCertificates(n)
  \/ ctGetNodes(n)
  \/ volRun(n)

NextCluster ==
  \/ \E n \in ClusterNodes : MemberStep(n)
  \/ LeaderChange

SpecCluster == InitCluster /\ [][NextCluster]_vars

\* The steps of member n's startup in an upgrade that adds a waiting patch.
WaitStep(n) ==
  \/ memberApply(n)
  \/ memberMark(n)
  \/ dbSchema(n)
  \/ dbLeader(n)
  \/ dbExec(n)
  \/ ctEntry(n)
  \/ ctGetCertificates(n)
  \/ ctGetNodes(n)

NextWaits ==
  \/ \E n \in ClusterNodes : WaitStep(n)
  \/ LeaderChange

\* Every member that can take a step of its startup eventually takes one:
\* the startup path is the only thing a starting daemon runs.
SpecClusterFair ==
  InitWaits /\ [][NextWaits]_vars /\ \A n \in ClusterNodes : WF_vars(WaitStep(n))

\* The upgrade that adds db_nodes_autoinc, with members whose startup failed
\* being started again.
InitRerun == InitUpgrade(<<1, 1>>)

RerunStep(n) ==
  \/ memberApply(n)
  \/ memberMark(n)
  \/ dbSchema(n)
  \/ dbLeader(n)
  \/ dbExec(n)
  \/ memberRestart(n)

NextRerun ==
  \/ \E n \in ClusterNodes : RerunStep(n)
  \/ LeaderChange

SpecRerun == InitRerun /\ [][NextRerun]_vars

(* ------------------------------ the storage patches and remote pools *)
\* Variant: no pool is skipped.
VisitedPoolsAll(n) == { StoragePools[k] : k \in DOMAIN StoragePools }

\* The pools whose volumes the body goes through: a remote pool is skipped
\* (continue) unless isLeader.
VisitedPools(n) ==
  { pool \in { StoragePools[k] : k \in DOMAIN StoragePools } : ~(Remote(pool) /\ ~isLeader[n]) }

\* patchStorageRenameCustomISOBlockVolumes: the custom volumes of the visited
\* pools that are on this server (any server when ServerName is empty) and
\* hold an ISO image.
RenameTargets(n) ==
  { v \in VolumeIDs : /\ VolumeInfo[v].pool \in VisitedPools(n)
                      /\ VolumeInfo[v].type = "custom"
                      /\ ~serverClustered \/ VolumeInfo[v].location = n
                      /\ VolumeInfo[v].content = "iso" }

\* patchStorageUnsetInvalidBlockSettings: the volumes of the visited lvm and
\* ceph pools, custom filesystem volumes left out, that have a block.* key.
UnsetTargets(n) ==
  { v \in VolumeIDs : /\ VolumeInfo[v].pool \in VisitedPools(n)
                      /\ PoolDriver(VolumeInfo[v].pool) \in {"lvm", "ceph"}
                      /\ ~(VolumeInfo[v].type = "custom" /\ VolumeInfo[v].content = "filesystem")
                      /\ storageVolumes[v].blockKeys }

\* Both bodies up to the leader test: the pool names are read, then isLeader
\* is set on a standalone node and on the member whose cluster address is the
\* leader address; a failed read or leader query returns the error.
storageBegin(n) ==
  /\ Runs(n)
  /\ sidx[n] <= Len(StoragePatches)
  /\ spc[n] = "idle"
  /\ \/ /\ spc' = [spc EXCEPT ![n] = "failed"]
        /\ UNCHANGED <<isLeader, sawLeader>>
     \/ /\ isLeader' = [isLeader EXCEPT ![n] = ~serverClustered \/ n = leader]
        /\ sawLeader' = [sawLeader EXCEPT ![n] = IF serverClustered THEN leader ELSE 0]
        /\ spc' = [spc EXCEPT ![n] = "run"]
  /\ UNCHANGED <<storageVolumes, changes, sidx, thinpoolVars, uuidKeyVars, networkVars>>
  /\ UNCHANGED <<serverClustered, leader, leaderChanges, nodesAutoInc, rebuilt, trustedServerCerts, volUUID, nidx, npc, napplied, dbCerts, serverCertInt, nhow, nerr>>
  /\ UNCHANGED <<runnerVars, names, lastPatch>>

\* Both bodies after the leader test: each target is renamed (".iso" is
\* appended) or loses its block.* keys; an error at one target returns with
\* the targets before it changed.
storageRun(n) ==
  /\ spc[n] = "run"
  /\ LET targets == IF sidx[n] = 1 THEN RenameTargets(n) ELSE UnsetTargets(n)
     IN \E done \in SUBSET targets :
          /\ storageVolumes' =
               [v \in VolumeIDs |->
                  IF v \notin done THEN storageVolumes[v]
                  ELSE IF sidx[n] = 1
                       THEN [storageVolumes[v] EXCEPT !.iso = @ + 1]
                       ELSE [storageVolumes[v] EXCEPT !.blockKeys = FALSE]]
          /\ changes' = changes \cup { [by |-> n, fn |-> StoragePatches[sidx[n]], vol |-> v,
                                        leaderAddress |-> sawLeader[n]] : v \in done }
          /\ IF done = targets
             THEN /\ spc' = [spc EXCEPT ![n] = "idle"]
                  /\ sidx' = [sidx EXCEPT ![n] = @ + 1]
             ELSE /\ spc' = [spc EXCEPT ![n] = "failed"]
                  /\ UNCHANGED sidx
  /\ UNCHANGED <<isLeader, thinpoolVars, uuidKeyVars, networkVars>>
  /\ UNCHANGED clusterVars
  /\ UNCHANGED <<runnerVars, names>>

\* A deployment, standalone or clustered with some leader, before its
\* members run the storage patches.
InitRemote ==
  /\ InitWith(patches)
  /\ PayloadIdle
  /\ serverClustered \in BOOLEAN
  /\ leader \in (IF serverClustered THEN ClusterNodes ELSE {1})
  /\ leaderChanges = 0
  /\ nodesAutoInc = TRUE
  /\ rebuilt = <<>>
  /\ trustedServerCerts = {}
  /\ volUUID = [o \in Volumes |-> NoUUID]
  /\ lastPatch = 0
  /\ nidx = [n \in ClusterNodes |-> 1]
  /\ npc = [n \in ClusterNodes |-> "idle"]
  /\ napplied = [n \in ClusterNodes |-> {}]
  /\ dbCerts = [n \in ClusterNodes |-> {}]
  /\ sawLeader = [n \in ClusterNodes |-> 0]
  /\ serverCertInt = [n \in ClusterNodes |-> FALSE]
  /\ nhow = [n \in ClusterNodes |-> [q \in ClusterPatchNames |-> "none"]]
  /\ nerr = [n \in ClusterNodes |-> ""]

NextRemote ==
  \/ \E n \in ClusterNodes : storageBegin(n)
  \/ \E n \in ClusterNodes : storageRun(n)
  \/ LeaderChange

SpecRemote == InitRemote /\ [][NextRemote]_vars

(* ---------------------------------------------- patchThinpoolTypoFix *)
\* Variant: the statements took effect without a transaction around them.
FailedKeepsWrites ==
  /\ tpc' = "failed"
  /\ tx' = NoTx
  /\ poolsConfig' = IF tx.open THEN tx.rows ELSE poolsConfig
  /\ poolIdx' = 0
  /\ nodeIdx' = 0
  /\ value' = ""
  /\ rolledBack' = (rolledBack \/ (tx.open /\ tx.rows # poolsConfig))

\* An error return: the deferred revert.Fail() runs tx.Rollback(), which
\* drops what the transaction wrote.
Failed ==
  /\ tpc' = "failed"
  /\ tx' = NoTx
  /\ poolsConfig' = poolsConfig
  /\ poolIdx' = 0
  /\ nodeIdx' = 0
  /\ value' = ""
  /\ rolledBack' = (rolledBack \/ (tx.open /\ tx.rows # poolsConfig))

\* d.db.Cluster.Begin()
thinBegin ==
  /\ tpc = "idle"
  /\ \/ Failed
     \/ /\ tx' = [open |-> TRUE, rows |-> poolsConfig]
        /\ tpc' = "select"
        /\ UNCHANGED <<poolsConfig, poolIdx, nodeIdx, value, rolledBack>>
  /\ UNCHANGED <<runnerVars, names, clusterVars, storageVars, uuidKeyVars, networkVars>>

\* The two SelectIntegers calls: the node ids, then the lvm pool ids.
thinSelect ==
  /\ tpc = "select"
  /\ \/ Failed
     \/ /\ tpc' = "pool"
        /\ poolIdx' = 1
        /\ UNCHANGED <<poolsConfig, tx, nodeIdx, value, rolledBack>>
  /\ UNCHANGED <<runnerVars, names, clusterVars, storageVars, uuidKeyVars, networkVars>>

\* The head of the pool loop: after the last pool tx.Commit(); else
\* SelectConfig of the pool's rows with node_id NULL, the pool passed over
\* when lvm.thinpool_name is not among them.
thinPool ==
  /\ tpc = "pool"
  /\ IF poolIdx > Len(poolIDs)
     THEN \/ Failed
          \/ /\ poolsConfig' = tx.rows
             /\ tx' = NoTx
             /\ tpc' = "done"
             /\ poolIdx' = 0
             /\ UNCHANGED <<nodeIdx, value, rolledBack>>
     ELSE \/ Failed
          \/ LET config == { r \in tx.rows : r.pool = poolIDs[poolIdx] /\ r.node = 0
                                             /\ r.key = "lvm.thinpool_name" }
             IN IF config = {}
                THEN /\ poolIdx' = poolIdx + 1
                     /\ UNCHANGED <<poolsConfig, tx, tpc, nodeIdx, value, rolledBack>>
                ELSE /\ value' = (CHOOSE r \in config : TRUE).value
                     /\ tpc' = "delete"
                     /\ UNCHANGED <<poolsConfig, tx, poolIdx, nodeIdx, rolledBack>>
  /\ UNCHANGED <<runnerVars, names, clusterVars, storageVars, uuidKeyVars, networkVars>>

\* DELETE ... WHERE key='lvm.thinpool_name' AND storage_pool_id=? AND node_id IS NULL
thinDelete ==
  /\ tpc = "delete"
  /\ \/ Failed
     \/ /\ tx' = [tx EXCEPT !.rows = { r \in @ : ~(r.key = "lvm.thinpool_name"
                                                   /\ r.pool = poolIDs[poolIdx] /\ r.node = 0) }]
        /\ tpc' = "insert"
        /\ nodeIdx' = 1
        /\ UNCHANGED <<poolsConfig, poolIdx, value, rolledBack>>
  /\ UNCHANGED <<runnerVars, names, clusterVars, storageVars, uuidKeyVars, networkVars>>

\* The node loop: INSERT of the node's row with the value read; the
\* statement fails when the node has a row of that key already.
thinInsert ==
  /\ tpc = "insert"
  /\ IF nodeIdx > Len(nodeIDs)
     THEN /\ tpc' = "pool"
          /\ poolIdx' = poolIdx + 1
          /\ nodeIdx' = 0
          /\ value' = ""
          /\ UNCHANGED <<poolsConfig, tx, rolledBack>>
     ELSE \/ Failed
          \/ /\ \A r \in tx.rows : ~(r.pool = poolIDs[poolIdx] /\ r.node = nodeIDs[nodeIdx]
                                      /\ r.key = "lvm.thinpool_name")
             /\ tx' = [tx EXCEPT !.rows = @ \cup {Row(poolIDs[poolIdx], nodeIDs[nodeIdx],
                                                      "lvm.thinpool_name", value)}]
             /\ nodeIdx' = nodeIdx + 1
             /\ UNCHANGED <<poolsConfig, tpc, poolIdx, value, rolledBack>>
  /\ UNCHANGED <<runnerVars, names, clusterVars, storageVars, uuidKeyVars, networkVars>>

\* The patch was not recorded: the next start of the daemon runs it again.
thinRestart ==
  /\ tpc = "failed"
  /\ tpc' = "idle"
  /\ UNCHANGED <<poolsConfig, tx, poolIdx, nodeIdx, value, rolledBack>>
  /\ UNCHANGED <<runnerVars, names, clusterVars, storageVars, uuidKeyVars, networkVars>>

InitThinpool ==
  /\ InitWith(patches)
  /\ ClusterIdleMembers
  /\ StorageIdle
  /\ UUIDKeyIdle([o \in InstanceIDs |-> Config("", "")])
  /\ NetworkIdle
  /\ \E some \in SUBSET ThinpoolRows : ThinpoolIdle(some)

NextThinpool ==
  \/ thinBegin
  \/ thinSelect
  \/ thinPool
  \/ thinDelete
  \/ thinInsert
  \/ thinRestart

SpecThinpool == InitThinpool /\ [][NextThinpool]_vars

(* ---------------------------------------------- patchVMRenameUUIDKey *)
\* changes: volatile.vm.uuid is set to "" and volatile.uuid to its value.
changesOf(config) == Config("", config.vmuuid)

\* Variant: the instance type is not looked at.
RenamedAnyType(o, config) ==
  IF config.vmuuid # "" THEN changesOf(config) ELSE config

\* The config of instance or snapshot o after the callback: a non-VM
\* instance is passed over with its snapshots, and a config is updated only
\* when its volatile.vm.uuid is not "".
Renamed(o, config) ==
  IF InstanceInfo[o].type = "virtual-machine" /\ config.vmuuid # ""
  THEN changesOf(config)
  ELSE config

\* patchVMRenameUUIDKey: one transaction over all instances; an error of a
\* read or an update ends it and the transaction is rolled back.
vmRenameRun ==
  /\ vruns < MaxCalls
  /\ vruns' = vruns + 1
  /\ \/ /\ vpc' = "failed"
        /\ UNCHANGED instConfig
     \/ /\ vpc' = "done"
        /\ instConfig' = [o \in InstanceIDs |-> Renamed(o, instConfig[o])]
  /\ UNCHANGED <<runnerVars, names, clusterVars, storageVars, thinpoolVars, networkVars>>

InitUUIDKey ==
  /\ InitWith(patches)
  /\ ClusterIdleMembers
  /\ StorageIdle
  /\ ThinpoolIdle({})
  /\ NetworkIdle
  /\ \E cfg \in InstanceConfigs : UUIDKeyIdle(cfg)

NextUUIDKey == vmRenameRun

SpecUUIDKey == InitUUIDKey /\ [][NextUUIDKey]_vars

(* ---------------------------------------------- patchGenericNetwork *)
\* The patches whose run is patchGenericNetwork(f).
NetworkPatches ==
  {"network_clear_bridge_volatile_hwaddr", "network_ovn_enable_nat", "network_ovn_remove_routes",
   "network_fan_enable_nat", "network_acl_remove_defaults"}

\* Errors network.PatchPreCheck can return.
PreCheckErrors == {"pre-check error"}

\* Variant: f is called whatever the pre-check returned, and its result is returned.
genericNetworkUnchecked(pre) == {""} \cup BodyErrors

\* The wrapper after network.PatchPreCheck returned pre: the results f can
\* return when it is called, no call of f when pre is an error.
genericNetwork(pre) == IF pre # "" THEN {} ELSE {""} \cup BodyErrors

\* patch.apply of a wrapped patch: p.run is the function patchGenericNetwork
\* returned; it returns the pre-check's error or else what f returns.
genericNetworkRun ==
  /\ pc = "run"
  /\ registry[i].name \in NetworkPatches
  /\ \E pre \in {""} \cup PreCheckErrors :
     \E err \in IF genericNetwork(pre) = {} THEN {pre} ELSE genericNetwork(pre) :
       /\ preChecks' = Append(preChecks, [name |-> registry[i].name, err |-> pre])
       /\ innerCalls' = IF genericNetwork(pre) = {} THEN innerCalls ELSE Append(innerCalls, registry[i].name)
       /\ outcomes' = [outcomes EXCEPT ![registry[i].name] = Append(@, err = "")]
       /\ runErr' = err
       /\ IF err = ""
          THEN /\ pc' = "mark"
               /\ trace' = Append(trace, Ev("ok", registry[i].name))
               /\ UNCHANGED <<ret, cause>>
          ELSE /\ pc' = "idle"
               /\ trace' = Append(trace, Ev("fail", registry[i].name))
               /\ ret' = ErrRun(registry[i].name)
               /\ cause' = err
  /\ UNCHANGED <<registry, applied, stage, i, appliedPatches, calls, prev>>
  /\ UNCHANGED <<names, clusterVars, storageVars, thinpoolVars, uuidKeyVars>>

\* patch.apply of a patch whose run is not wrapped.
applyRunPlain == applyRun /\ registry[i].name \notin NetworkPatches

InitNetwork == InitShipped

NextNetwork ==
  \/ Bootstrap
  \/ patchesApplyLoop
  \/ applyRunPlain
  \/ genericNetworkRun
  \/ applyMark
  \/ Crash

SpecNetwork == InitNetwork /\ [][NextNetwork]_vars

(* ------------------------------------------------ reading the history *)
\* Index of the patch named n in the registry.
IndexOf(n) == CHOOSE k \in DOMAIN registry : registry[k].name = n

StageOf(n) == registry[IndexOf(n)].stage

Events(e) == { k \in DOMAIN trace : trace[k].ev = e }

Started(n) == \E k \in Events("start") : trace[k].name = n

\* The last invocation ran to a return statement (it did not crash).
Returned == pc = "idle" /\ calls >= 1 /\ ret.kind \notin {"crash before mark", "crash in body"}

AllTrue(sq) == \A k \in DOMAIN sq : sq[k]

(* ------------------------------------------------------------ claims *)

\* C1 - Stage isolation: an invocation for stage s starts the body of, and
\* records, only patches whose stage is s.
StageIsolation ==
  \A k \in DOMAIN trace :
    trace[k].ev \in {"start", "mark"} => StageOf(trace[k].name) = stage

\* C2 - Ordering: when the body of a patch B starts, every patch A that is
\* earlier in the registry, of B's stage and pending in this invocation has
\* had its body return success and its name written, in that order, before.
Ordering ==
  \A b \in Events("start") :
    \A ka \in 1..(IndexOf(trace[b].name) - 1) :
      (/\ registry[ka].stage = StageOf(trace[b].name)
       /\ registry[ka].name \notin appliedPatches)
      => /\ \E a1 \in 1..(b - 1), a2 \in 1..(b - 1) :
              /\ a1 < a2
              /\ trace[a1] = Ev("ok", registry[ka].name)
              /\ trace[a2] = Ev("mark", registry[ka].name)
         /\ registry[ka].name \in applied

\* Two pending patches of one stage have both had their bodies started.
OrderingWitness ==
  \E a \in Events("start"), b \in Events("start") :
    /\ a < b
    /\ StageOf(trace[a].name) = StageOf(trace[b].name)

\* C3 - Idempotency: an invocation that follows a successful one for the
\* same stage starts no body and leaves the store as it was.
Idempotency ==
  (calls >= 2 /\ prev.ret = Nil /\ prev.stage = stage)
  => /\ Events("start") = {}
     /\ applied = prev.applied

\* The second of two successful invocations for one stage has returned, the
\* first having recorded patches.
IdempotencyWitness ==
  /\ calls >= 2 /\ prev.ret = Nil /\ prev.stage = stage
  /\ pc = "idle" /\ ret = Nil
  /\ applied # {}

\* C4 - Fail-fast: a body failure of patch K ends the invocation with an
\* error at once; no patch after K in the registry had its body started,
\* and every patch whose body succeeded before K is recorded.
FailFast ==
  \A k \in Events("fail") :
    /\ k = Len(trace)
    /\ pc = "idle"
    /\ ret = ErrRun(trace[k].name)
    /\ \A j \in Events("start") : IndexOf(trace[j].name) <= IndexOf(trace[k].name)
    /\ \A j \in Events("ok") : trace[j].name \in applied

\* A patch that is not the first one run by the invocation has failed.
FailFastWitness ==
  \E k \in Events("fail") : k > 1 /\ Events("mark") # {}

\* C5 (as stated) - Unset-stage rejection: with a patch of stage
\* patchNoStageSet in the registry no patch body at all is executed.
UnsetStageRejection ==
  (\E k \in DOMAIN registry : registry[k].stage = patchNoStageSet)
  => Events("start") = {}

\* Index of the first registry patch without a stage (0 when there is none).
FirstNoStage ==
  IF \E k \in DOMAIN registry : registry[k].stage = patchNoStageSet
  THEN CHOOSE k \in DOMAIN registry :
         /\ registry[k].stage = patchNoStageSet
         /\ \A j \in 1..(k - 1) : registry[j].stage # patchNoStageSet
  ELSE 0

\* C5 (amended) - with a patch of stage patchNoStageSet in the registry the
\* invocation never returns success and never starts the body of the first
\* such patch or of a patch after it; the configuration error names that
\* patch and is returned once every patch before it is recorded.
UnsetStageStopsWalk ==
  FirstNoStage # 0
  => /\ \A j \in Events("start") : IndexOf(trace[j].name) < FirstNoStage
     /\ ~(Returned /\ ret = Nil)
     /\ ret.kind = ErrNoStage("").kind
        => /\ ret.name = registry[FirstNoStage].name
           /\ \A j \in 1..(FirstNoStage - 1) : registry[j].name \in applied

\* The configuration error was returned after bodies of earlier patches ran.
UnsetStageStopsWalkWitness ==
  /\ Returned
  /\ ret.kind = ErrNoStage("").kind
  /\ Events("mark") # {}

\* C6 - Mark-after-success: a recorded name had its body return success;
\* each write directly follows the success of that body and precedes the
\* start of the next body; a failed body causes no write.
MarkAfterSuccess ==
  /\ \A n \in applied : \E k \in DOMAIN outcomes[n] : outcomes[n][k]
  /\ \A k \in Events("mark") : k > 1 /\ trace[k - 1] = Ev("ok", trace[k].name)
  /\ \A k \in Events("start") : k > 1 => trace[k - 1].ev = "mark"
  /\ \A k \in Events("fail") : k = Len(trace) /\ trace[k].name \notin applied

\* A name has been written and a later body has failed.
MarkAfterSuccessWitness ==
  /\ Events("mark") # {}
  /\ Events("fail") # {}

\* The scenario of C7 so far: three patches of one stage, that stage requested
\* by every invocation, the only failure being the first body call of the
\* second patch (no store error, no crash).
RetryScenario ==
  /\ Len(registry) = 3
  /\ \A k \in 1..3 : registry[k].stage = stage
  /\ calls >= 2 => prev.stage = stage
  /\ AllTrue(outcomes[registry[1].name])
  /\ AllTrue(outcomes[registry[3].name])
  /\ outcomes[registry[2].name] # <<>>
       => /\ ~Head(outcomes[registry[2].name])
          /\ AllTrue(Tail(outcomes[registry[2].name]))
  /\ ret.kind \in {Nil.kind, ErrRun("").kind}
  /\ calls >= 2 => prev.ret.kind \in {Nil.kind, ErrRun("").kind}

\* C7 - Retry after restart: in the scenario the first invocation records
\* P1, fails on P2 with an error naming it and never starts P3; the second
\* skips P1, runs and records P2 and P3; P1 and P3 ran once, P2 twice.
RetryAfterRestart ==
  (RetryScenario /\ pc = "idle")
  => LET P1 == registry[1].name
         P2 == registry[2].name
         P3 == registry[3].name
     IN /\ calls = 1
           => /\ ret = ErrRun(P2)
              /\ applied = {P1}
              /\ trace = <<Ev("start", P1), Ev("ok", P1), Ev("mark", P1),
                           Ev("start", P2), Ev("fail", P2)>>
              /\ outcomes[P3] = <<>>
        /\ calls = 2
           => /\ prev.ret = ErrRun(P2)
              /\ ret = Nil
              /\ trace = <<Ev("start", P2), Ev("ok", P2), Ev("mark", P2),
                           Ev("start", P3), Ev("ok", P3), Ev("mark", P3)>>
              /\ applied = {P1, P2, P3}
              /\ Len(outcomes[P1]) = 1
              /\ Len(outcomes[P2]) = 2
              /\ Len(outcomes[P3]) = 1

\* The second invocation of the scenario has returned.
RetryAfterRestartWitness ==
  /\ RetryScenario
  /\ pc = "idle"
  /\ calls = 2
  /\ Len(outcomes[registry[2].name]) = 2

\* C9 - Persistence failure: when MarkPatchAsApplied fails after a successful
\* body the invocation ends at once with an error that names the patch and
\* differs from the body-failure error, and the name is not in the store.
PersistenceFailure ==
  \A k \in Events("markfail") :
    /\ k = Len(trace)
    /\ k > 1 /\ trace[k - 1] = Ev("ok", trace[k].name)
    /\ pc = "idle"
    /\ ret.name = trace[k].name
    /\ ret.kind = ErrMark("").kind
    /\ ret.kind # ErrRun("").kind
    /\ trace[k].name \notin applied

\* The write of a name has failed after an earlier patch was recorded.
PersistenceFailureWitness ==
  /\ Events("markfail") # {}
  /\ Events("mark") # {}

\* C10 - Crash between body success and mark write: the next invocation
\* starts with the body of that patch, starts no body of a patch
\* recorded at the crash, and the store still holds what it held.
CrashBeforeMark ==
  prev.ret.kind = "crash before mark"
  => /\ prev.ret.name \notin prev.applied
     /\ prev.applied \subseteq applied
     /\ trace # <<>> => trace[1] = Ev("start", prev.ret.name)
     /\ \A k \in Events("start") : trace[k].name \notin prev.applied
     /\ (Returned /\ ret # ErrGet) => Started(prev.ret.name)

\* After such a crash, with patches recorded before it, the next invocation
\* has run to its end.
CrashBeforeMarkWitness ==
  /\ prev.ret.kind = "crash before mark"
  /\ prev.applied # {}
  /\ Returned
  /\ ret = Nil

\* C8 - Stage total order: under the daemon's bootstrap, when the body of a
\* patch starts, every registry patch of an earlier stage has completed its
\* body (in this invocation, or it was recorded before it).
StageTotalOrder ==
  \A b \in Events("start") :
    \A k \in DOMAIN registry :
      registry[k].stage < StageOf(trace[b].name)
      => \/ registry[k].name \in appliedPatches
         \/ \E a \in 1..(b - 1) : trace[a] = Ev("ok", registry[k].name)

\* C11 - Success means complete: when an invocation for stage s returns nil,
\* every registry patch of stage s is in the store, and each one that was
\* pending had its body succeed and its name written in this invocation.
SuccessMeansRecorded ==
  (Returned /\ ret = Nil)
  => \A k \in DOMAIN registry :
       registry[k].stage = stage
       => /\ registry[k].name \in applied
          /\ registry[k].name \notin appliedPatches
             => \E a \in Events("ok"), b \in Events("mark") :
                  /\ a < b
                  /\ trace[a].name = registry[k].name
                  /\ trace[b].name = registry[k].name

\* An invocation returned nil after applying a pending patch of its stage.
SuccessMeansRecordedWitness ==
  /\ Returned
  /\ ret = Nil
  /\ \E k \in DOMAIN registry :
       registry[k].stage = stage /\ registry[k].name \notin appliedPatches

\* C12 - patchesGetNames returns exactly the names of the patches whose
\* stage is set, in registry order, with no element for the others.
NamesOnlyValidPatches ==
  names # <<>>
  => LET valid == SelectSeq(registry, LAMBDA q : q.stage # patchNoStageSet)
     IN /\ Len(names) = Len(valid)
        /\ \A k \in DOMAIN valid : names[k] = valid[k].name

\* C13 (as stated) - a body failure is reported wrapped with the patch name
\* and the patch stage, the body's error being retrievable from it.
ErrorWrapsNameAndStage ==
  ret.kind = ErrRun("").kind
  => /\ "stage" \in DOMAIN ret
     /\ cause = runErr

\* C13 (amended) - a body failure is reported as a message made of a fixed
\* prefix and the patch name only, wrapping the body's own error unchanged.
ErrorWrapsNameOnly ==
  ret.kind = "Failed applying patch"
  => /\ DOMAIN ret = {"kind", "name"}
     /\ trace # <<>> /\ trace[Len(trace)] = Ev("fail", ret.name)
     /\ runErr \in BodyErrors
     /\ cause = runErr

\* A body failed with the second of the errors a body can return.
ErrorWrapsNameOnlyWitness ==
  /\ ret.kind = "Failed applying patch"
  /\ runErr = "body error 2"
  /\ Events("mark") # {}

\* C14 - the store only grows, and a name is written only when it is not in
\* the store yet (so at most once).
StoreOnlyGrows ==
  [][/\ applied \subseteq applied'
     /\ (Len(trace') = Len(trace) + 1 /\ trace'[Len(trace')].ev = "mark")
        => /\ trace'[Len(trace')].name \notin applied
           /\ applied' = applied \cup {trace'[Len(trace')].name}]_vars

\* A later invocation has written a name into a store that held names.
StoreOnlyGrowsWitness ==
  /\ calls >= 2
  /\ prev.applied # {}
  /\ Events("mark") # {}

\* C15 - a registry with a name twice is not accepted: no invocation starts
\* the body of one name twice, and none returns nil.
DuplicateNamesRejected ==
  (\E a \in DOMAIN registry, b \in DOMAIN registry : a # b /\ registry[a].name = registry[b].name)
  => /\ \A a \in Events("start"), b \in Events("start") : a # b => trace[a].name # trace[b].name
     /\ ~(Returned /\ ret = Nil)

\* C16 - in a cluster the nodes table is rebuilt only by a member whose latest
\* leader check named itself, and the patch body returns nil only once the
\* nodes table is AUTOINCREMENT: seen so by the member, or made so by it.
LeaderOnlyRebuild ==
  serverClustered
  => /\ \A k \in DOMAIN rebuilt : rebuilt[k].saw = rebuilt[k].member
     /\ \A n \in ClusterNodes :
          /\ npc[n] = "db_exec" => sawLeader[n] = n
          /\ (npc[n] = "ok" /\ ClusterPatches[nidx[n]] = "db_nodes_autoinc")
             => /\ nodesAutoInc
                /\ \/ nhow[n]["db_nodes_autoinc"] = "skipped"
                   \/ \E k \in DOMAIN rebuilt : rebuilt[k].member = n

\* After a change of leader one member has rebuilt the nodes table and another
\* one, which polled, has found it rebuilt and is recorded.
LeaderOnlyRebuildWitness ==
  /\ serverClustered
  /\ leaderChanges > 0
  /\ Len(rebuilt) = 1
  /\ \E n \in ClusterNodes :
       /\ n # rebuilt[1].member
       /\ nhow[n]["db_nodes_autoinc"] = "skipped"
       /\ "db_nodes_autoinc" \in napplied[n]

\* C17 - a cluster member that is not the leader is recorded as having applied
\* storage_set_volume_uuid only when every bucket, volume and snapshot has a
\* volatile.uuid.
NonLeaderRecordedAfterLeader ==
  \A n \in ClusterNodes :
    (/\ serverClustered
     /\ nhow[n]["storage_set_volume_uuid"] = "not leader"
     /\ "storage_set_volume_uuid" \in napplied[n])
    => NoUUIDYet = {}

\* C18 - in a cluster the certificate patch returns nil, and is recorded, on a
\* member only when every member has a server certificate in the trust store.
CertTrustAllMembers ==
  serverClustered
  => \A n \in ClusterNodes :
       /\ (npc[n] = "ok" /\ ClusterPatches[nidx[n]] = "clustering_server_cert_trust")
          => Members \subseteq trustedServerCerts
       /\ "clustering_server_cert_trust" \in napplied[n]
          => Members \subseteq trustedServerCerts

\* Every member of a cluster has waited for the others and is recorded.
CertTrustAllMembersWitness ==
  /\ serverClustered
  /\ \A n \in ClusterNodes :
       /\ nhow[n]["clustering_server_cert_trust"] = "all trusted"
       /\ "clustering_server_cert_trust" \in napplied[n]

\* C19 - a member in one of the two waits, once what it waits for is true
\* (it stays true then), leaves the wait: its body returns nil, or a read of
\* the store has failed.
WaitsReturn ==
  \A n \in ClusterNodes :
    /\ (npc[n] \in {"ct_certs", "ct_members"} /\ Members \subseteq trustedServerCerts)
       ~> (npc[n] \in {"ok", "failed"})
    /\ (npc[n] \in {"db_schema", "db_leader"} /\ nodesAutoInc)
       ~> (npc[n] \in {"ok", "failed"})

\* A member has returned from the wait while another one, which has polled
\* before the last certificate came in, is on its next iteration.
WaitsReturnWitness ==
  /\ serverClustered
  /\ Members \subseteq trustedServerCerts
  /\ \E n \in ClusterNodes, m \in ClusterNodes :
       /\ npc[n] = "ok" /\ nhow[n]["clustering_server_cert_trust"] = "all trusted"
       /\ npc[m] = "ct_certs" /\ dbCerts[m] # {}

\* C20 - a member in a wait whose condition does not hold stays in the wait,
\* a failed read of the store apart: nothing is recorded for it and it does
\* not move on to a later patch.
StallKeepsWaiting ==
  [][\A n \in ClusterNodes :
       /\ (npc[n] \in {"ct_certs", "ct_members"} /\ ~(Members \subseteq trustedServerCerts))
          => /\ \/ npc'[n] \in {"ct_certs", "ct_members"}
                \/ /\ npc'[n] = "failed"
                   /\ nerr'[n] \in {"certificates read error", "members read error"}
             /\ napplied'[n] = napplied[n]
             /\ nidx'[n] = nidx[n]
       /\ (npc[n] \in {"db_schema", "db_leader"} /\ serverClustered /\ ~nodesAutoInc /\ leader # n)
          => /\ \/ npc'[n] \in {"db_schema", "db_leader"}
                \/ /\ npc'[n] = "failed"
                   /\ nerr'[n] \in {"schema query error", "config load error", "leader address error"}
             /\ napplied'[n] = napplied[n]
             /\ nidx'[n] = nidx[n]]_vars

\* A member whose startup failed never adds its certificate; another member
\* has polled and polls again, unrecorded.
StallKeepsWaitingWitness ==
  /\ serverClustered
  /\ \E n \in ClusterNodes, m \in ClusterNodes :
       /\ npc[m] = "failed" /\ m \notin trustedServerCerts
       /\ npc[n] = "ct_certs" /\ dbCerts[n] # {}
       /\ "clustering_server_cert_trust" \notin napplied[n]

\* C21 - the walk never goes past a registry patch without a stage, recorded
\* or not: its body is never started, and an invocation that has stopped at
\* it has returned the configuration error naming it.
UnsetStageNeverSkipped ==
  \A k \in DOMAIN registry :
    registry[k].stage = patchNoStageSet
    => /\ i <= k
       /\ pc \in {"run", "mark"} => i # k
       /\ (pc = "idle" /\ i = k) => ret = ErrNoStage(registry[k].name)

\* An invocation has run a pending patch and then returned the configuration
\* error for a patch whose name is in the store.
UnsetStageNeverSkippedWitness ==
  /\ Returned
  /\ ret.kind = "has no stage set"
  /\ ret.name \in applied
  /\ Events("mark") # {}

\* C22 - the bodies an invocation starts are, in registry order, those of
\* the patches whose names were not in the store when it began: a prefix of
\* them at any time, all of them when it returns nil.
SkipByRecordedName ==
  calls >= 1
  => LET started == SelectSeq(trace, LAMBDA e : e.ev = "start")
         pending == SelectSeq(registry, LAMBDA q : q.name \notin prev.applied)
     IN /\ Len(started) <= Len(pending)
        /\ \A k \in DOMAIN started : started[k].name = pending[k].name
        /\ (pc = "idle" /\ ret = Nil) => Len(started) = Len(pending)

\* An invocation has returned nil after it ran a patch that stands before a
\* recorded one in the registry and a patch that stands after it.
SkipByRecordedNameWitness ==
  /\ pc = "idle" /\ ret = Nil
  /\ \E a \in Events("start"), b \in Events("start"), r \in DOMAIN registry :
       /\ registry[r].name \in prev.applied
       /\ IndexOf(trace[a].name) < r
       /\ r < IndexOf(trace[b].name)

\* Where the patch named n is in its life on this node.
PatchState(n) ==
  IF n \in applied THEN "applied"
  ELSE IF pc \in {"run", "mark"} /\ registry[i].name = n THEN "running"
  ELSE IF /\ pc = "idle"
          /\ ret.name = n
          /\ ret.kind \in {"Failed applying patch", "Failed marking patch applied",
                           "crash before mark", "crash in body"}
       THEN "failed"
  ELSE "pending"

\* C23 - a patch goes from pending to running and from running to applied or
\* to failed only; an applied patch stays applied and its body is not called
\* again; it becomes applied after its body returned nil; a failed patch is
\* not in the store and is pending at the next start.
PatchLifecycle ==
  [][\A n \in RegNames(registry) :
       /\ <<PatchState(n), PatchState(n)'>> \in
            {<<"pending", "pending">>, <<"pending", "running">>,
             <<"running", "running">>, <<"running", "applied">>, <<"running", "failed">>,
             <<"applied", "applied">>,
             <<"failed", "failed">>, <<"failed", "pending">>}
       /\ n \in applied => outcomes'[n] = outcomes[n]
       /\ (n \notin applied /\ n \in applied')
          => outcomes[n] # <<>> /\ outcomes[n][Len(outcomes[n])]
       /\ (pc = "idle" /\ ret.name = n /\ ret.kind # "has no stage set") => n \notin applied
       /\ (PatchState(n) = "failed" /\ calls' = calls + 1) => PatchState(n)' = "pending"]_vars

\* A patch failed in one invocation, ran again in the next and is applied.
PatchLifecycleWitness ==
  \E n \in RegNames(registry) :
    /\ n \in applied
    /\ Len(outcomes[n]) = 2
    /\ ~outcomes[n][1]
    /\ prev.ret = ErrRun(n)

\* C24 - the applied names an invocation works with are the content of the
\* store when it began, read by the step that begins it and by no other; a
\* patch the walk has passed was started if and only if its name was not in
\* that content.
SnapshotReadOnce ==
  [][/\ appliedPatches' # appliedPatches => (pc = "idle" /\ calls' = calls + 1)
     /\ (calls' >= 1 /\ pc' # "idle") =>
          /\ appliedPatches' = prev'.applied
          /\ \A k \in 1..(i' - 1) :
               (registry[k].name \in prev'.applied)
                 <=> ~(\E e \in DOMAIN trace' : trace'[e] = Ev("start", registry[k].name))]_vars

\* The walk is past a patch it has recorded and a patch it has skipped: the
\* store has changed since the read.
SnapshotReadOnceWitness ==
  /\ pc = "loop"
  /\ applied # prev.applied
  /\ prev.applied # {}
  /\ Events("mark") # {}
  /\ \E k \in 1..(i - 1) : registry[k].name \in prev.applied

\* C25 - at most one body is running: a started body that has not returned is
\* the last event of the invocation, and every body started before another
\* one had returned nil and had its name written before that one started.
OneBodyAtATime ==
  /\ \A k \in Events("start") :
       k < Len(trace) => trace[k + 1].ev \in {"ok", "fail"} /\ trace[k + 1].name = trace[k].name
  /\ \A j \in Events("start"), k \in Events("start") :
       j < k => /\ j + 2 < k
                /\ trace[j + 1] = Ev("ok", trace[j].name)
                /\ trace[j + 2] = Ev("mark", trace[j].name)
                /\ trace[j].name \in applied
  /\ pc = "run" => (trace # <<>> /\ trace[Len(trace)].ev = "start")
  /\ (trace # <<>> /\ trace[Len(trace)].ev = "start")
     => pc = "run" \/ (pc = "idle" /\ ret.kind = "crash in body")

\* The second body of an invocation is running.
OneBodyAtATimeWitness ==
  /\ pc = "run"
  /\ Cardinality(Events("start")) = 2

\* C26 - a member that reads the schema when the nodes table is AUTOINCREMENT
\* already leaves the patch there: it returns nil (or the error of the read),
\* does not ask for the leader and does not rebuild.
AutoIncNoOp ==
  [][\A n \in ClusterNodes :
       (npc[n] = "db_schema" /\ nodesAutoInc /\ npc'[n] # npc[n])
       => /\ \/ npc'[n] = "ok" /\ nerr'[n] = nerr[n]
             \/ npc'[n] = "failed" /\ nerr'[n] = "schema query error"
          /\ rebuilt' = rebuilt
          /\ nodesAutoInc'
          /\ sawLeader' = sawLeader]_vars

\* A member rebuilt the nodes table, failed to be recorded, was started again
\* and is recorded after a run of the patch that found nothing to do.
AutoIncNoOpWitness ==
  /\ Len(rebuilt) = 1
  /\ LET n == rebuilt[1].member
     IN /\ nhow[n]["db_nodes_autoinc"] = "skipped"
        /\ "db_nodes_autoinc" \in napplied[n]

\* C27 - on a node that is not clustered the leader check leads to the
\* rebuild without another iteration; an error of the schema query, of the
\* config load or of the leader query ends the patch with that error and
\* without a rebuild.
StandaloneRebuildsAtOnce ==
  [][\A n \in ClusterNodes :
       /\ (~serverClustered /\ npc[n] = "db_leader" /\ npc'[n] # npc[n])
          => \/ npc'[n] = "db_exec"
             \/ npc'[n] = "failed" /\ nerr'[n] \in {"config load error", "leader address error"}
       /\ (npc[n] \in {"db_schema", "db_leader"} /\ npc'[n] = "failed")
          => /\ nerr'[n] \in {"schema query error", "config load error", "leader address error"}
             /\ rebuilt' = rebuilt
             /\ nodesAutoInc' = nodesAutoInc]_vars

\* A node that is not clustered has rebuilt the nodes table and is recorded.
StandaloneRebuildsAtOnceWitness ==
  /\ ~serverClustered
  /\ rebuilt = <<[member |-> 1, saw |-> 0]>>
  /\ "db_nodes_autoinc" \in napplied[1]

\* C28 - the nodes table is rebuilt by one member at most.
AtMostOneRebuild ==
  Cardinality({ rebuilt[k].member : k \in DOMAIN rebuilt }) <= 1

\* C29 - in a cluster whose members all start the release that adds the
\* certificate patch, every member comes to return nil from the patch,
\* unless an operation on the store fails on some member.
NoCertTrustDeadlock ==
  (serverClustered /\ lastPatch = 2)
  ~> \/ \A n \in ClusterNodes : nhow[n]["clustering_server_cert_trust"] = "all trusted"
     \/ \E n \in ClusterNodes : npc[n] = "failed"

\* Every member has left the wait and gone on; no startup has failed.
NoCertTrustDeadlockWitness ==
  /\ serverClustered
  /\ \A n \in ClusterNodes :
       /\ nhow[n]["clustering_server_cert_trust"] = "all trusted"
       /\ npc[n] = "idle"
       /\ nidx[n] = 3
       /\ serverCertInt[n]

\* C30 - on a node that is not clustered the certificate patch returns nil in
\* its first step and changes nothing; on a cluster member the switch to the
\* server certificate is made by the step that ends the wait, with every
\* member trusted.
CertTrustFrame ==
  [][\A n \in ClusterNodes :
       /\ (~serverClustered /\ npc[n] = "ct_entry" /\ npc'[n] # npc[n])
          => /\ npc'[n] = "ok"
             /\ trustedServerCerts' = trustedServerCerts
             /\ serverCertInt' = serverCertInt
             /\ dbCerts' = dbCerts
       /\ serverCertInt'[n] # serverCertInt[n]
          => /\ serverClustered
             /\ npc[n] = "ct_members" /\ npc'[n] = "ok"
             /\ serverCertInt'[n]
             /\ Members \subseteq trustedServerCerts]_vars

\* A node that is not clustered is recorded for the certificate patch.
CertTrustFrameWitness ==
  /\ ~serverClustered
  /\ nhow[1]["clustering_server_cert_trust"] = "not clustered"
  /\ "clustering_server_cert_trust" \in napplied[1]
  /\ ~serverCertInt[1]
  /\ trustedServerCerts = {}

\* C31 - an invocation whose read of the applied names failed has returned
\* that error: it is over, it started no body and the store is as it was.
ReadFailureStopsAll ==
  ret.kind = "GetAppliedPatches error"
  => /\ pc = "idle"
     /\ ret.name = ""
     /\ trace = <<>>
     /\ applied = prev.applied

\* The read failed in an invocation that follows one that recorded a patch.
ReadFailureStopsAllWitness ==
  /\ ret.kind = "GetAppliedPatches error"
  /\ calls >= 2
  /\ prev.ret.kind \in {"nil", "has no stage set", "Failed applying patch"}
  /\ \E n \in applied : outcomes[n] # <<>>
  /\ \E k \in DOMAIN registry : registry[k].name \notin applied

\* C32 - a member goes past a patch only by having its own body of it return
\* nil and writing the name into its own store; it starts the body of a patch
\* its store does not hold, whatever the stores of the others hold.
OwnStoreOnly ==
  [][\A n \in ClusterNodes :
       /\ nidx'[n] # nidx[n]
          => /\ npc[n] = "ok"
             /\ nhow[n][ClusterPatches[nidx[n]]] # "none"
             /\ nidx'[n] = nidx[n] + 1
             /\ napplied'[n] = napplied[n] \cup {ClusterPatches[nidx[n]]}
       /\ napplied'[n] # napplied[n]
          => /\ nidx'[n] # nidx[n]
             /\ \A m \in ClusterNodes \ {n} : napplied'[m] = napplied[m]
       /\ (npc[n] = "idle" /\ npc'[n] # "idle")
          => /\ ClusterPatches[nidx[n]] \notin napplied[n]
             /\ npc'[n] \in {"db_schema", "ct_entry", "vol_run"}]_vars

\* A member is in the body of a patch that another member has recorded.
OwnStoreOnlyWitness ==
  \E n \in ClusterNodes, m \in ClusterNodes :
    /\ nidx[n] <= lastPatch
    /\ ClusterPatches[nidx[n]] \in napplied[m]
    /\ ClusterPatches[nidx[n]] \notin napplied[n]
    /\ npc[n] \in {"db_schema", "db_leader", "db_exec"}

\* C34 - every change to a volume of a remote pool in a cluster was made by
\* the member whose own address was the leader address its body read: a
\* clustered member that is not the leader changes no remote volume.
RemoteOnlyOnLeader ==
  \A c \in changes :
    (serverClustered /\ PoolDriver(VolumeInfo[c.vol].pool) = "ceph") => c.leaderAddress = c.by

RemoteOnlyOnLeaderWitness ==
  /\ serverClustered
  /\ \E n \in ClusterNodes :
       /\ sidx[n] > Len(StoragePatches)
       /\ \A k \in DOMAIN StoragePatches :
            \E c \in changes : /\ c.by = n
                               /\ c.fn = StoragePatches[k]
                               /\ c.leaderAddress # n
                               /\ VolumeInfo[c.vol].pool # "ceph"
       /\ \E c \in changes : c.by # n /\ VolumeInfo[c.vol].pool = "ceph"

\* What a successful run makes of the table cfg: the lvm.thinpool_name row
\* with node_id NULL of every lvm pool replaced by one row per node.
ThinpoolFixed(cfg) ==
  LET typo == { r \in cfg : r.key = "lvm.thinpool_name" /\ r.node = 0 /\ r.pool \in {1, 2} }
  IN (cfg \ typo) \cup { [pool |-> r.pool, node |-> n, key |-> r.key, value |-> r.value] :
                           r \in typo, n \in 1..NumNodes }

\* C35 - an error return of patchThinpoolTypoFix leaves no transaction open
\* and storage_pools_config as it was, the table changes in the step that
\* returns nil only, and it is then the old table with each lvm pool's global
\* lvm.thinpool_name row replaced by a row of the same value for every node.
ThinpoolAtomic ==
  [][/\ tpc' = "failed" => (poolsConfig' = poolsConfig /\ ~tx'.open)
     /\ poolsConfig' # poolsConfig => (tpc' = "done" /\ tpc # "done")
     /\ (tpc' = "done" /\ tpc # "done") => (poolsConfig' = ThinpoolFixed(poolsConfig) /\ ~tx'.open)]_vars

ThinpoolAtomicWitness ==
  /\ tpc = "done"
  /\ rolledBack
  /\ \A n \in 1..NumNodes :
       {[pool |-> 1, node |-> n, key |-> "lvm.thinpool_name", value |-> "tp1"]} \subseteq poolsConfig
  /\ \A r \in poolsConfig : r.key = "lvm.thinpool_name" => r.node # 0

PreCheckGuardsInner ==
  [][/\ innerCalls' # innerCalls
        => /\ preChecks' = Append(preChecks, [name |-> registry[i].name, err |-> ""])
           /\ innerCalls' = Append(innerCalls, registry[i].name)
     /\ preChecks' # preChecks
        => /\ pc = "run"
           /\ Len(preChecks') = Len(preChecks) + 1
           /\ preChecks'[Len(preChecks')].name = registry[i].name
           /\ IF preChecks'[Len(preChecks')].err = ""
              THEN innerCalls' # innerCalls
              ELSE /\ innerCalls' = innerCalls
                   /\ pc' = "idle"
                   /\ ret' = [kind |-> "Failed applying patch", name |-> registry[i].name]
                   /\ cause' = preChecks'[Len(preChecks')].err
                   /\ applied' = applied
     /\ \A n \in applied' \ applied :
          n \in NetworkPatches => \E k \in DOMAIN innerCalls : innerCalls[k] = n]_vars

PreCheckGuardsInnerWitness ==
  /\ \E k \in DOMAIN preChecks :
       /\ preChecks[k].err # ""
       /\ preChecks[k].name \notin applied
       /\ \A j \in DOMAIN innerCalls : innerCalls[j] # preChecks[k].name
       /\ pc = "idle"
       /\ ret = [kind |-> "Failed applying patch", name |-> preChecks[k].name]
  /\ \E n \in applied : \E j \in DOMAIN innerCalls : innerCalls[j] = n

====
